---- MODULE Spec2Model ----
(***************************************************************************)
(* Price-list ingestion pipeline of heart_eco: the section-aware parser    *)
(* (src/utils/seeder.rs), the product model's validation and SKU           *)
(* generation (src/models/wood_plank.rs) and the two seeding drivers       *)
(* (src/bin/seed.rs main, seeder::seed_database).                          *)
(*                                                                         *)
(* A string is a sequence of one-character strings, so that trimming,      *)
(* upper-casing, tokenizing and integer parsing are computed as the code   *)
(* computes them.                                                          *)
(***************************************************************************)
EXTENDS Integers, Sequences, FiniteSets, TLC

VARIABLES
    lines,            \* contents of price_list.txt: a sequence of lines
    io,               \* price_list.txt on disk: whether it opens, which line fails to read
    pos,              \* parse_price_list: index of the next line of the for loop
    current_section,  \* parse_price_list: current_section
    products,         \* parse_price_list: products
    trace,            \* per processed line: which branch of the loop body ran
    parse_pc,         \* parse_price_list: "idle", "loop" or "done"
    store,            \* table wood_planks: sequence of rows in insertion order
    pc,               \* per driver: "start", "check", "insert", "done", "failed"
    prods,            \* per driver: the Vec<NewWoodPlank> it iterates over
    idx,              \* per driver: index of the current product
    cur,              \* per driver: product_with_sku and now, awaiting the INSERT
    success_count,    \* per driver: success_count (seed.rs)
    error_count,      \* per driver: error_count (seed.rs)
    log,              \* per driver: store operations issued and their outcome
    err,              \* per driver: the AppError it returned, "Panic" or "none"
    clock,            \* chrono::Utc::now(), in steps of the drivers
    saved             \* the table before the run, and as seed.rs main left it

vars == <<lines, io, pos, current_section, products, trace, parse_pc, store,
          pc, prods, idx, cur, success_count, error_count, log, err, clock,
          saved>>

parseVars == <<pos, current_section, products, trace, parse_pc>>
driverVars == <<store, pc, prods, idx, cur, success_count, error_count, log, err, clock>>

(***************************************************************************)
(* Bounds                                                                  *)
(***************************************************************************)
\* longest file drawn from the parser's line pool
MaxLines == 3
\* most product lines in a file handed to the seeding drivers
MaxRecords == 2

(***************************************************************************)
(* Option<T>                                                               *)
(***************************************************************************)
None == [some |-> FALSE]
Some(v) == [some |-> TRUE, val |-> v]

\* AppResult: Ok(v) or Err(e), e one of the variants of AppError
Ok(v) == [ok |-> TRUE, val |-> v]
Err(e) == [ok |-> FALSE, err |-> e]

(***************************************************************************)
(* String literals of seeder.rs                                            *)
(***************************************************************************)
\* "HEAVY DUTY WOODEN BOXES"
H_HEAVY_DUTY_WOODEN_BOXES == <<"H", "E", "A", "V", "Y", " ", "D", "U", "T", "Y", " ", "W", "O", "O", "D", "E", "N", " ", "B", "O", "X", "E", "S">>
\* "PALLETS"
H_PALLETS == <<"P", "A", "L", "L", "E", "T", "S">>
\* "A GRADE LONG TIMBERS"
H_A_GRADE_LONG_TIMBERS == <<"A", " ", "G", "R", "A", "D", "E", " ", "L", "O", "N", "G", " ", "T", "I", "M", "B", "E", "R", "S">>
\* "B GRADE LONG TIMBERS"
H_B_GRADE_LONG_TIMBERS == <<"B", " ", "G", "R", "A", "D", "E", " ", "L", "O", "N", "G", " ", "T", "I", "M", "B", "E", "R", "S">>
\* "A GRADE SHORT TIMBERS"
H_A_GRADE_SHORT_TIMBERS == <<"A", " ", "G", "R", "A", "D", "E", " ", "S", "H", "O", "R", "T", " ", "T", "I", "M", "B", "E", "R", "S">>
\* "B GRADE SHORT TIMBERS"
H_B_GRADE_SHORT_TIMBERS == <<"B", " ", "G", "R", "A", "D", "E", " ", "S", "H", "O", "R", "T", " ", "T", "I", "M", "B", "E", "R", "S">>
\* "PLANED BOTH SIDES"
H_PLANED_BOTH_SIDES == <<"P", "L", "A", "N", "E", "D", " ", "B", "O", "T", "H", " ", "S", "I", "D", "E", "S">>
\* "PLANED ALL ROUND"
H_PLANED_ALL_ROUND == <<"P", "L", "A", "N", "E", "D", " ", "A", "L", "L", " ", "R", "O", "U", "N", "D">>
\* "MACHINED TIMBERS"
H_MACHINED_TIMBERS == <<"M", "A", "C", "H", "I", "N", "E", "D", " ", "T", "I", "M", "B", "E", "R", "S">>
\* "SHORT BALTIC COMPONENTS"
H_SHORT_BALTIC_COMPONENTS == <<"S", "H", "O", "R", "T", " ", "B", "A", "L", "T", "I", "C", " ", "C", "O", "M", "P", "O", "N", "E", "N", "T", "S">>
\* "LAMINATED BALTIC TABLE AND SHELVES TO ORDER"
H_LAMINATED_BALTIC == <<"L", "A", "M", "I", "N", "A", "T", "E", "D", " ", "B", "A", "L", "T", "I", "C", " ", "T", "A", "B", "L", "E", " ", "A", "N", "D", " ", "S", "H", "E", "L", "V", "E", "S", " ", "T", "O", " ", "O", "R", "D", "E", "R">>
\* "INT/EXTERIOR PLYWOOD"
H_INT_EXTERIOR_PLYWOOD == <<"I", "N", "T", "/", "E", "X", "T", "E", "R", "I", "O", "R", " ", "P", "L", "Y", "W", "O", "O", "D">>
\* "INTERIOR PLYWOOD"
H_INTERIOR_PLYWOOD == <<"I", "N", "T", "E", "R", "I", "O", "R", " ", "P", "L", "Y", "W", "O", "O", "D">>
\* "PAR"
T_PAR == <<"P", "A", "R">>
\* "BALTIC"
T_BALTIC == <<"B", "A", "L", "T", "I", "C">>
\* "PINE"
T_PINE == <<"P", "I", "N", "E">>
\* "OAK"
T_OAK == <<"O", "A", "K">>
\* "EA"
T_EA == <<"E", "A">>
\* "B"
T_B == <<"B">>
\* "MERANTI"
T_MERANTI == <<"M", "E", "R", "A", "N", "T", "I">>
\* "par"
T_PAR_LOWER == <<"p", "a", "r">>

(***************************************************************************)
(* str primitives                                                          *)
(***************************************************************************)
LowerAlpha == <<"a", "b", "c", "d", "e", "f", "g", "h", "i", "j", "k", "l", "m", "n", "o", "p", "q", "r", "s", "t", "u", "v", "w", "x", "y", "z">>
UpperAlpha == <<"A", "B", "C", "D", "E", "F", "G", "H", "I", "J", "K", "L", "M", "N", "O", "P", "Q", "R", "S", "T", "U", "V", "W", "X", "Y", "Z">>
Digits == <<"0", "1", "2", "3", "4", "5", "6", "7", "8", "9">>
WhiteSpace == {" ", "\t"}
I32Max == 2147483647
I32Min == (0 - 2147483647) - 1

IndexIn(alpha, c) ==
    IF \E i \in 1..Len(alpha) : alpha[i] = c
    THEN CHOOSE i \in 1..Len(alpha) : alpha[i] = c
    ELSE 0

\* char::to_uppercase / char::to_lowercase on ASCII
upper_char(c) == IF IndexIn(LowerAlpha, c) > 0 THEN UpperAlpha[IndexIn(LowerAlpha, c)] ELSE c
lower_char(c) == IF IndexIn(UpperAlpha, c) > 0 THEN LowerAlpha[IndexIn(UpperAlpha, c)] ELSE c

\* str::to_uppercase
to_uppercase(s) == [i \in 1..Len(s) |-> upper_char(s[i])]

\* str::trim: drop leading and trailing whitespace
RECURSIVE trim_start(_)
trim_start(s) ==
    IF s # <<>> /\ Head(s) \in WhiteSpace THEN trim_start(Tail(s)) ELSE s
RECURSIVE trim_end(_)
trim_end(s) ==
    IF s # <<>> /\ s[Len(s)] \in WhiteSpace THEN trim_end(SubSeq(s, 1, Len(s) - 1)) ELSE s
trim(s) == trim_end(trim_start(s))

\* str::contains(char)
contains_char(s, c) == \E i \in 1..Len(s) : s[i] = c

\* str::split_whitespace().collect(): the maximal runs of non-whitespace
RECURSIVE split_from(_, _, _)
split_from(s, i, tok) ==
    IF i > Len(s)
    THEN IF tok = <<>> THEN <<>> ELSE <<tok>>
    ELSE IF s[i] \in WhiteSpace
         THEN IF tok = <<>> THEN split_from(s, i + 1, <<>>)
                            ELSE <<tok>> \o split_from(s, i + 1, <<>>)
         ELSE split_from(s, i + 1, Append(tok, s[i]))
split_whitespace(s) == split_from(s, 1, <<>>)

\* slice::contains(&token)
contains_token(parts, t) == \E i \in 1..Len(parts) : parts[i] = t

\* str::starts_with('R')
starts_with_R(t) == Len(t) >= 1 /\ t[1] = "R"

\* str::parse::<i32>(): optional sign, one or more ASCII digits, accumulated
\* with checked arithmetic (an overflow is an Err)
RECURSIVE checked_digits(_, _, _)
checked_digits(s, acc, neg) ==
    IF s = <<>> THEN [ok |-> TRUE, val |-> acc]
    ELSE LET d == IndexIn(Digits, Head(s)) - 1
         IN  IF d < 0 THEN [ok |-> FALSE]
             ELSE IF neg
                  THEN IF acc < (I32Min + d + 9) \div 10 THEN [ok |-> FALSE]
                       ELSE checked_digits(Tail(s), 10 * acc - d, neg)
                  ELSE IF acc > (I32Max - d) \div 10 THEN [ok |-> FALSE]
                       ELSE checked_digits(Tail(s), 10 * acc + d, neg)
parse_i32(s) ==
    LET signed == s # <<>> /\ Head(s) \in {"+", "-"}
        body == IF signed THEN Tail(s) ELSE s
    IN  IF body = <<>> THEN [ok |-> FALSE]
        ELSE checked_digits(body, 0, signed /\ Head(s) = "-")

(***************************************************************************)
(* models/wood_plank.rs                                                    *)
(***************************************************************************)
\* the record with width_mm and length_mm taken from each other's token
NewWoodPlank_swapped(sku, name, category, wood_type, grade, finish, t, w, l, price, line) ==
    [sku |-> sku, name |-> name, category |-> category, wood_type |-> wood_type,
     grade |-> grade, finish |-> finish,
     thickness_mm |-> t, width_mm |-> l, length_mm |-> w,
     price |-> price, stock_quantity |-> 10, unit_of_measure |-> "EA",
     description |-> Some(line), image_url |-> None]

\* the struct literal of parse_product_line
NewWoodPlank(sku, name, category, wood_type, grade, finish, t, w, l, price, line) ==
    [sku |-> sku, name |-> name, category |-> category, wood_type |-> wood_type,
     grade |-> grade, finish |-> finish,
     thickness_mm |-> t, width_mm |-> w, length_mm |-> l,
     price |-> price, stock_quantity |-> 10, unit_of_measure |-> "EA",
     description |-> Some(line), image_url |-> None]

\* validate with `<` for `<=` in the dimension check
validate_lax(p) ==
    IF p.length_mm < 0 \/ p.width_mm < 0 \/ p.thickness_mm < 0 THEN "InvalidDimensions"
    ELSE IF p.price <= 0 THEN "InvalidPrice"
    ELSE IF p.stock_quantity < 0 THEN "InvalidStock"
    ELSE "Ok"

\* NewWoodPlank::validate: Ok(()) iff none of the three checks fails
validate(p) ==
    IF p.length_mm <= 0 \/ p.width_mm <= 0 \/ p.thickness_mm <= 0 THEN "InvalidDimensions"
    ELSE IF p.price <= 0 THEN "InvalidPrice"
    ELSE IF p.stock_quantity < 0 THEN "InvalidStock"
    ELSE "Ok"

category_code(c) ==
    CASE c = "HeavyDutyBox" -> "HDB"
      [] c = "Pallet" -> "PAL"
      [] c = "LongTimber" -> "LT"
      [] c = "ShortTimber" -> "ST"
      [] c = "PlanedTimber" -> "PT"
      [] c = "MachinedTimber" -> "MT"
      [] c = "Component" -> "COMP"
      [] c = "LaminatedTable" -> "LAM"
      [] c = "Plywood" -> "PLY"
      [] c = "Custom" -> "CUST"

grade_code(g) ==
    CASE g = "AGrade" -> "A"
      [] g = "BGrade" -> "B"
      [] g = "Standard" -> "S"

\* the SKU with the wood type after the grade code
generate_sku_with_wood(p) ==
    IF p.sku # "" THEN p.sku
    ELSE category_code(p.category) \o "-" \o grade_code(p.grade) \o "-"
         \o p.wood_type \o "-"
         \o ToString(p.thickness_mm) \o "x" \o ToString(p.width_mm)
         \o "x" \o ToString(p.length_mm)

\* NewWoodPlank::generate_sku
generate_sku(p) ==
    IF p.sku # "" THEN p.sku
    ELSE category_code(p.category) \o "-" \o grade_code(p.grade) \o "-"
         \o ToString(p.thickness_mm) \o "x" \o ToString(p.width_mm)
         \o "x" \o ToString(p.length_mm)

(***************************************************************************)
(* utils/seeder.rs: the parser                                             *)
(***************************************************************************)
\* the match on line_upper
match_header(line_upper) ==
        CASE line_upper = H_HEAVY_DUTY_WOODEN_BOXES -> Some("HeavyDutyBoxes")
          [] line_upper = H_PALLETS -> Some("Pallets")
          [] line_upper = H_A_GRADE_LONG_TIMBERS -> Some("AGradeLongTimbers")
          [] line_upper = H_B_GRADE_LONG_TIMBERS -> Some("BGradeLongTimbers")
          [] line_upper = H_A_GRADE_SHORT_TIMBERS -> Some("AGradeShortTimbers")
          [] line_upper = H_B_GRADE_SHORT_TIMBERS -> Some("BGradeShortTimbers")
          [] line_upper = H_PLANED_BOTH_SIDES -> Some("PlanedBothSides")
          [] line_upper = H_PLANED_ALL_ROUND -> Some("PlanedAllRound")
          [] line_upper = H_MACHINED_TIMBERS -> Some("MachinedTimbers")
          [] line_upper = H_SHORT_BALTIC_COMPONENTS -> Some("ShortBalticComponents")
          [] line_upper = H_LAMINATED_BALTIC -> Some("LaminatedBaltic")
          [] line_upper \in {H_INT_EXTERIOR_PLYWOOD, H_INTERIOR_PLYWOOD} -> Some("Plywood")
          [] OTHER -> None

\* the match applied to the line as typed
identify_section_case_sensitive(line) == match_header(line)

identify_section(line) == match_header(to_uppercase(line))

\* the table with the B GRADE SHORT TIMBERS row graded AGrade
section_to_category_grade_b_as_a(section) ==
    CASE section = "HeavyDutyBoxes" -> <<"HeavyDutyBox", "Standard">>
      [] section = "Pallets" -> <<"Pallet", "Standard">>
      [] section = "AGradeLongTimbers" -> <<"LongTimber", "AGrade">>
      [] section = "BGradeLongTimbers" -> <<"LongTimber", "BGrade">>
      [] section = "AGradeShortTimbers" -> <<"ShortTimber", "AGrade">>
      [] section = "BGradeShortTimbers" -> <<"ShortTimber", "AGrade">>
      [] section = "PlanedBothSides" -> <<"PlanedTimber", "Standard">>
      [] section = "PlanedAllRound" -> <<"PlanedTimber", "Standard">>
      [] section = "MachinedTimbers" -> <<"MachinedTimber", "Standard">>
      [] section = "ShortBalticComponents" -> <<"Component", "Standard">>
      [] section = "LaminatedBaltic" -> <<"LaminatedTable", "Standard">>
      [] section = "Plywood" -> <<"Plywood", "Standard">>
      [] section = "None" -> <<"Custom", "Standard">>

section_to_category_grade(section) ==
    CASE section = "HeavyDutyBoxes" -> <<"HeavyDutyBox", "Standard">>
      [] section = "Pallets" -> <<"Pallet", "Standard">>
      [] section = "AGradeLongTimbers" -> <<"LongTimber", "AGrade">>
      [] section = "BGradeLongTimbers" -> <<"LongTimber", "BGrade">>
      [] section = "AGradeShortTimbers" -> <<"ShortTimber", "AGrade">>
      [] section = "BGradeShortTimbers" -> <<"ShortTimber", "BGrade">>
      [] section = "PlanedBothSides" -> <<"PlanedTimber", "Standard">>
      [] section = "PlanedAllRound" -> <<"PlanedTimber", "Standard">>
      [] section = "MachinedTimbers" -> <<"MachinedTimber", "Standard">>
      [] section = "ShortBalticComponents" -> <<"Component", "Standard">>
      [] section = "LaminatedBaltic" -> <<"LaminatedTable", "Standard">>
      [] section = "Plywood" -> <<"Plywood", "Standard">>
      [] section = "None" -> <<"Custom", "Standard">>

\* the finish with the PAR token looked at before the section
identify_finish_type_par_first(section, parts) ==
    IF contains_token(parts, T_PAR) THEN "PlanedAllRound"
    ELSE CASE section = "PlanedBothSides" -> "PlanedBothSides"
           [] section = "PlanedAllRound" -> "PlanedAllRound"
           [] section = "MachinedTimbers" -> "Machined"
           [] section = "LaminatedBaltic" -> "Laminated"
           [] OTHER -> "Rough"

identify_finish_type(section, parts) ==
    CASE section = "PlanedBothSides" -> "PlanedBothSides"
      [] section = "PlanedAllRound" -> "PlanedAllRound"
      [] section = "MachinedTimbers" -> "Machined"
      [] section = "LaminatedBaltic" -> "Laminated"
      [] OTHER -> IF contains_token(parts, T_PAR) THEN "PlanedAllRound" ELSE "Rough"

identify_wood_type(parts) ==
    IF contains_token(parts, T_BALTIC) THEN "Baltic"
    ELSE IF contains_token(parts, T_PINE) THEN "Pine"
    ELSE IF contains_token(parts, T_OAK) THEN "Oak"
    ELSE "Mixed"

wood_type_str(wood_type) ==
    CASE wood_type = "Baltic" -> "Baltic"
      [] wood_type = "Pine" -> "Pine"
      [] wood_type = "Oak" -> "Oak"
      [] wood_type = "Recycled" -> "Recycled"
      [] wood_type = "Mixed" -> "Mixed"

\* the price of a token with the `R` optional
price_of_token_bare(t) ==
    IF starts_with_R(t) /\ parse_i32(Tail(t)).ok THEN Some(parse_i32(Tail(t)).val)
    ELSE IF parse_i32(t).ok THEN Some(parse_i32(t).val)
    ELSE None

\* the price carried by one token: Some(n) for "R<i32>", else None
price_of_token(t) ==
    IF starts_with_R(t) /\ parse_i32(Tail(t)).ok THEN Some(parse_i32(Tail(t)).val) ELSE None

\* the scan from the first token: the left-most token with a price
scan_fwd(parts, i) ==
    LET hits == {k \in 1..i : price_of_token(parts[k]).some}
    IN  IF hits = {} THEN None
        ELSE price_of_token(parts[CHOOSE k \in hits : \A h \in hits : k <= h])

\* for part in parts.iter().rev(): the first token, from the end, with a price
RECURSIVE scan_rev(_, _)
scan_rev(parts, i) ==
    IF i = 0 THEN None
    ELSE IF price_of_token(parts[i]).some THEN price_of_token(parts[i])
    ELSE scan_rev(parts, i - 1)

extract_price(parts) ==
    IF parts # <<>> /\ price_of_token(parts[Len(parts)]).some
    THEN price_of_token(parts[Len(parts)])
    ELSE scan_rev(parts, Len(parts))

\* parts.len() >= 6
MinTokens_off_by_one == 6

\* parts.len() >= 7
MinTokens == 7

\* parse_product_line refusing a dimension or a price that is not positive
parse_product_line_positive(line, section) ==
    IF ~contains_char(line, "X") /\ ~contains_char(line, "x") THEN None
    ELSE LET parts == split_whitespace(line)
         IN  IF Len(parts) >= MinTokens
                /\ parse_i32(parts[1]).ok /\ parse_i32(parts[3]).ok /\ parse_i32(parts[5]).ok
                /\ extract_price(parts).some
                /\ parse_i32(parts[1]).val > 0 /\ parse_i32(parts[3]).val > 0
                /\ parse_i32(parts[5]).val > 0 /\ extract_price(parts).val > 0
             THEN LET thickness == parse_i32(parts[1]).val
                      width == parse_i32(parts[3]).val
                      length == parse_i32(parts[5]).val
                      wood_type == identify_wood_type(parts)
                      name == ToString(thickness) \o " x " \o ToString(width) \o " x "
                              \o ToString(length) \o " " \o wood_type_str(wood_type)
                      cg == section_to_category_grade(section)
                  IN  Some(NewWoodPlank("", name, cg[1], wood_type, cg[2],
                                        identify_finish_type(section, parts),
                                        thickness, width, length,
                                        extract_price(parts).val, line))
             ELSE None

parse_product_line(line, section) ==
    IF ~contains_char(line, "X") /\ ~contains_char(line, "x") THEN None
    ELSE LET parts == split_whitespace(line)
         IN  IF Len(parts) >= MinTokens
                /\ parse_i32(parts[1]).ok /\ parse_i32(parts[3]).ok /\ parse_i32(parts[5]).ok
                /\ extract_price(parts).some
             THEN LET thickness == parse_i32(parts[1]).val
                      width == parse_i32(parts[3]).val
                      length == parse_i32(parts[5]).val
                      wood_type == identify_wood_type(parts)
                      name == ToString(thickness) \o " x " \o ToString(width) \o " x "
                              \o ToString(length) \o " " \o wood_type_str(wood_type)
                      cg == section_to_category_grade(section)
                  IN  Some(NewWoodPlank("", name, cg[1], wood_type, cg[2],
                                        identify_finish_type(section, parts),
                                        thickness, width, length,
                                        extract_price(parts).val, line))
             ELSE None

\* products.insert(0, product)
vec_push_front(v, e) == <<e>> \o v

\* products.push(product)
vec_push(v, e) == Append(v, e)

\* the loop body falling back to PriceListSection::None on an unparsed line
loop_body_reset(section, raw) ==
    LET line == trim(raw)
    IN  IF line = <<>>
        THEN [section |-> section, emit |-> None, branch |-> "empty"]
        ELSE IF identify_section(line).some
        THEN [section |-> identify_section(line).val, emit |-> None, branch |-> "header"]
        ELSE IF section # "None"
        THEN IF parse_product_line(line, section).some
             THEN [section |-> section, emit |-> parse_product_line(line, section),
                   branch |-> "product"]
             ELSE [section |-> "None", emit |-> None, branch |-> "rejected"]
        ELSE [section |-> section, emit |-> None, branch |-> "ignored"]

\* the loop body without the `current_section != PriceListSection::None` test
loop_body_unguarded(section, raw) ==
    LET line == trim(raw)
    IN  IF line = <<>>
        THEN [section |-> section, emit |-> None, branch |-> "empty"]
        ELSE IF identify_section(line).some
        THEN [section |-> identify_section(line).val, emit |-> None, branch |-> "header"]
        ELSE [section |-> section, emit |-> parse_product_line(line, section),
              branch |-> IF parse_product_line(line, section).some THEN "product" ELSE "rejected"]

\* parse_price_list, body of `for line in lines`: the section after the line,
\* the record pushed (if any) and the branch taken
loop_body(section, raw) ==
    LET line == trim(raw)
    IN  IF line = <<>>
        THEN [section |-> section, emit |-> None, branch |-> "empty"]
        ELSE IF identify_section(line).some
        THEN [section |-> identify_section(line).val, emit |-> None, branch |-> "header"]
        ELSE IF section # "None"
        THEN [section |-> section, emit |-> parse_product_line(line, section),
              branch |-> IF parse_product_line(line, section).some THEN "product" ELSE "rejected"]
        ELSE [section |-> section, emit |-> None, branch |-> "ignored"]

\* parse_price_list as a whole: Ok(products) for a readable file
RECURSIVE parse_from(_, _, _, _)
parse_from(ls, i, section, acc) ==
    IF i > Len(ls) THEN acc
    ELSE LET r == loop_body(section, ls[i])
         IN  parse_from(ls, i + 1, r.section,
                        IF r.emit.some THEN vec_push(acc, r.emit.val) ELSE acc)
parse_price_list(ls) == parse_from(ls, 1, "None", <<>>)

(***************************************************************************)
(* utils/file.rs: read_lines                                               *)
(***************************************************************************)
\* the file as the operating system presents it
IoOk == [open |-> "ok", bad |-> 0]
IoCases(ls) ==
    {[open |-> "ok", bad |-> b] : b \in 0..Len(ls)}
        \cup {[open |-> o, bad |-> 0] : o \in {"missing", "denied"}}

\* Path::new(price_list_path).exists()
path_exists(f) == f.open # "missing"

\* for line in reader.lines() { lines.push(line?) }
RECURSIVE read_from(_, _, _, _)
read_from(f, ls, i, acc) ==
    IF i > Len(ls) THEN Ok(acc)
    ELSE IF i = f.bad THEN Err("IoError")
    ELSE read_from(f, ls, i + 1, Append(acc, ls[i]))

\* read_lines returning the lines read before the one that failed
read_lines_lossy(f, ls) ==
    IF f.open # "ok" THEN Err("IoError")
    ELSE IF f.bad > 0 THEN Ok(SubSeq(ls, 1, f.bad - 1))
    ELSE Ok(ls)

read_lines(f, ls) ==
    IF f.open # "ok" THEN Err("IoError")
    ELSE read_from(f, ls, 1, <<>>)

\* parse_price_list on a path: `file::read_lines(file_path)?`, then the loop
parse_price_list_path(f, ls) ==
    LET read == read_lines(f, ls)
    IN  IF read.ok THEN Ok(parse_price_list(read.val)) ELSE read

(***************************************************************************)
(* The store: table wood_planks                                            *)
(***************************************************************************)
\* the SELECT matching on another column
sku_exists_by_name(st, sku) == \E i \in 1..Len(st) : st[i].name = sku

\* SELECT id FROM wood_planks WHERE sku = $1 ... fetch_optional(..).is_some()
sku_exists(st, sku) == \E i \in 1..Len(st) : st[i].sku = sku

\* the store's uniqueness constraint on sku rejects the INSERT
unique_violation(st, sku) == \E i \in 1..Len(st) : st[i].sku = sku

\* INSERT INTO wood_planks (...) VALUES ($1, ..., $17)
\* the INSERT with the description column left NULL
insert_row_without_description(st, id, p, now) ==
    Append(st, [id |-> id, sku |-> p.sku, name |-> p.name, category |-> p.category,
                wood_type |-> p.wood_type, grade |-> p.grade, finish |-> p.finish,
                thickness_mm |-> p.thickness_mm, width_mm |-> p.width_mm,
                length_mm |-> p.length_mm, price |-> p.price,
                stock_quantity |-> p.stock_quantity,
                unit_of_measure |-> p.unit_of_measure,
                description |-> None, image_url |-> p.image_url,
                created_at |-> now, updated_at |-> now])

insert_row(st, id, p, now) ==
    Append(st, [id |-> id, sku |-> p.sku, name |-> p.name, category |-> p.category,
                wood_type |-> p.wood_type, grade |-> p.grade, finish |-> p.finish,
                thickness_mm |-> p.thickness_mm, width_mm |-> p.width_mm,
                length_mm |-> p.length_mm, price |-> p.price,
                stock_quantity |-> p.stock_quantity,
                unit_of_measure |-> p.unit_of_measure,
                description |-> p.description, image_url |-> p.image_url,
                created_at |-> now, updated_at |-> now])

(***************************************************************************)
(* Inputs                                                                  *)
(***************************************************************************)
\* " \t"
L_BLANK == <<" ", "\t">>
\* "UNKNOWN SECTION"
L_UNKNOWN_SECTION == <<"U", "N", "K", "N", "O", "W", "N", " ", "S", "E", "C", "T", "I", "O", "N">>
\* "PRICES EXCL VAT"
L_NOTE == <<"P", "R", "I", "C", "E", "S", " ", "E", "X", "C", "L", " ", "V", "A", "T">>
\* "23 X 100 X 2500 BALTIC EA R40"
L_BALTIC == <<"2", "3", " ", "X", " ", "1", "0", "0", " ", "X", " ", "2", "5", "0", "0", " ", "B", "A", "L", "T", "I", "C", " ", "E", "A", " ", "R", "4", "0">>
\* "  23 x 100 x 2500 PINE PAR R45"
L_PINE_PAR == <<" ", " ", "2", "3", " ", "x", " ", "1", "0", "0", " ", "x", " ", "2", "5", "0", "0", " ", "P", "I", "N", "E", " ", "P", "A", "R", " ", "R", "4", "5">>
\* "23 X 100 X 2500 R40"
L_SHORT == <<"2", "3", " ", "X", " ", "1", "0", "0", " ", "X", " ", "2", "5", "0", "0", " ", "R", "4", "0">>
\* "A3 X 100 X 2500 BALTIC EA R40"
L_BAD_T == <<"A", "3", " ", "X", " ", "1", "0", "0", " ", "X", " ", "2", "5", "0", "0", " ", "B", "A", "L", "T", "I", "C", " ", "E", "A", " ", "R", "4", "0">>
\* "23 X 1O0 X 2500 BALTIC EA R40"
L_BAD_W == <<"2", "3", " ", "X", " ", "1", "O", "0", " ", "X", " ", "2", "5", "0", "0", " ", "B", "A", "L", "T", "I", "C", " ", "E", "A", " ", "R", "4", "0">>
\* "23 X 100 X 99999999999 BALTIC EA R40"
L_BAD_L == <<"2", "3", " ", "X", " ", "1", "0", "0", " ", "X", " ", "9", "9", "9", "9", "9", "9", "9", "9", "9", "9", "9", " ", "B", "A", "L", "T", "I", "C", " ", "E", "A", " ", "R", "4", "0">>
\* "23 X 100 X 2500 BALTIC EA 40"
L_BARE_PRICE == <<"2", "3", " ", "X", " ", "1", "0", "0", " ", "X", " ", "2", "5", "0", "0", " ", "B", "A", "L", "T", "I", "C", " ", "E", "A", " ", "4", "0">>
\* "23 * 100 * 2500 BALTIC EA R40"
L_NO_X == <<"2", "3", " ", "*", " ", "1", "0", "0", " ", "*", " ", "2", "5", "0", "0", " ", "B", "A", "L", "T", "I", "C", " ", "E", "A", " ", "R", "4", "0">>
\* "23 X 100 X 0 OAK EA R40"
L_ZERO_LEN == <<"2", "3", " ", "X", " ", "1", "0", "0", " ", "X", " ", "0", " ", "O", "A", "K", " ", "E", "A", " ", "R", "4", "0">>
\* "-5 X 100 X 2500 BALTIC EA R-40"
L_NEG == <<"-", "5", " ", "X", " ", "1", "0", "0", " ", "X", " ", "2", "5", "0", "0", " ", "B", "A", "L", "T", "I", "C", " ", "E", "A", " ", "R", "-", "4", "0">>
\* "38 X 114 X 3000 PINE EA R0"
L_ZERO_PRICE == <<"3", "8", " ", "X", " ", "1", "1", "4", " ", "X", " ", "3", "0", "0", "0", " ", "P", "I", "N", "E", " ", "E", "A", " ", "R", "0">>
\* "38 X 114 X 3000 ROUGH R95 EA"
L_PRICE_MID == <<"3", "8", " ", "X", " ", "1", "1", "4", " ", "X", " ", "3", "0", "0", "0", " ", "R", "O", "U", "G", "H", " ", "R", "9", "5", " ", "E", "A">>
\* "38 X 114 X 3000 PINE EA R95"
L_OTHER == <<"3", "8", " ", "X", " ", "1", "1", "4", " ", "X", " ", "3", "0", "0", "0", " ", "P", "I", "N", "E", " ", "E", "A", " ", "R", "9", "5">>
\* "38 X 114 X 3000 R50 PINE R95"
L_TWO_PRICES == <<"3", "8", " ", "X", " ", "1", "1", "4", " ", "X", " ", "3", "0", "0", "0", " ", "R", "5", "0", " ", "P", "I", "N", "E", " ", "R", "9", "5">>
\* "38 X 114 X 3000 R50 R60 EA"
L_PRICE_THEN_TAGS == <<"3", "8", " ", "X", " ", "1", "1", "4", " ", "X", " ", "3", "0", "0", "0", " ", "R", "5", "0", " ", "R", "6", "0", " ", "E", "A">>
\* "38 X 114 X 3000 PINE R95 ROUGH"
L_PRICE_BEFORE_ROUGH == <<"3", "8", " ", "X", " ", "1", "1", "4", " ", "X", " ", "3", "0", "0", "0", " ", "P", "I", "N", "E", " ", "R", "9", "5", " ", "R", "O", "U", "G", "H">>
\* "38 X 114 X 3000 R70 R R4O"
L_R_ALONE == <<"3", "8", " ", "X", " ", "1", "1", "4", " ", "X", " ", "3", "0", "0", "0", " ", "R", "7", "0", " ", "R", " ", "R", "4", "O">>
\* "38 X 114 X 3000 R12 R+5 RX"
L_SIGNED_PRICE == <<"3", "8", " ", "X", " ", "1", "1", "4", " ", "X", " ", "3", "0", "0", "0", " ", "R", "1", "2", " ", "R", "+", "5", " ", "R", "X">>
\* "-5 X 100 X 2500 BALTIC EA R40"
L_NEG_DIM == <<"-", "5", " ", "X", " ", "1", "0", "0", " ", "X", " ", "2", "5", "0", "0", " ", "B", "A", "L", "T", "I", "C", " ", "E", "A", " ", "R", "4", "0">>
\* "23 X 100 X 2500 BALTIC EA R-40"
L_NEG_PRICE == <<"2", "3", " ", "X", " ", "1", "0", "0", " ", "X", " ", "2", "5", "0", "0", " ", "B", "A", "L", "T", "I", "C", " ", "E", "A", " ", "R", "-", "4", "0">>
\* " X"
X_EXTRA == <<" ", "X">>

RECURSIVE SeqsUpTo(_, _)
SeqsUpTo(S, n) ==
    IF n = 0 THEN {<<>>}
    ELSE LET shorter == SeqsUpTo(S, n - 1)
         IN  shorter \cup {Append(s, e) : s \in {t \in shorter : Len(t) = n - 1}, e \in S}

CanonicalHeaders ==
    {H_HEAVY_DUTY_WOODEN_BOXES, H_PALLETS, H_A_GRADE_LONG_TIMBERS, H_B_GRADE_LONG_TIMBERS,
     H_A_GRADE_SHORT_TIMBERS, H_B_GRADE_SHORT_TIMBERS, H_PLANED_BOTH_SIDES,
     H_PLANED_ALL_ROUND, H_MACHINED_TIMBERS, H_SHORT_BALTIC_COMPONENTS,
     H_LAMINATED_BALTIC, H_INT_EXTERIOR_PLYWOOD, H_INTERIOR_PLYWOOD}

\* a header phrase as it may be typed: letter case, padding, trailing tokens
Recase(mode, s) ==
    [i \in 1..Len(s) |-> CASE mode = "upper" -> s[i]
                           [] mode = "lower" -> lower_char(s[i])
                           [] mode = "mixed" -> IF i % 2 = 0 THEN lower_char(s[i]) ELSE s[i]]
Pads == {<<>>, <<" ">>, <<"\t", " ">>}
Extras == {<<>>, X_EXTRA, <<"S">>}
HeaderCases ==
    {[text |-> lp \o Recase(mode, h \o x) \o rp, phrase |-> h, extra |-> x] :
        h \in CanonicalHeaders, mode \in {"upper", "lower", "mixed"},
        lp \in Pads, rp \in Pads, x \in Extras}
HeaderVariants == {c.text : c \in HeaderCases}

\* lines combined freely into files
ParsePool ==
    {L_BLANK, H_A_GRADE_LONG_TIMBERS, H_PLANED_ALL_ROUND, L_UNKNOWN_SECTION,
     L_BALTIC, L_PINE_PAR, L_SHORT, L_NEG}

\* lines read once in each of two sections, between a header and a product
ProbeLines ==
    {L_NOTE, L_BAD_T, L_BAD_W, L_BAD_L, L_BARE_PRICE, L_NO_X, L_PRICE_MID,
     L_ZERO_LEN, L_ZERO_PRICE, L_OTHER, L_TWO_PRICES, L_PRICE_THEN_TAGS,
     L_PRICE_BEFORE_ROUGH, L_R_ALONE, L_SIGNED_PRICE}
ProbeHeaders == {H_B_GRADE_SHORT_TIMBERS, H_MACHINED_TIMBERS}

\* a number as typed in the price list
RECURSIVE nat_chars(_)
nat_chars(n) ==
    IF n < 10 THEN <<Digits[n + 1]>>
    ELSE Append(nat_chars(n \div 10), Digits[(n % 10) + 1])

\* tokens separated by single spaces
RECURSIVE join(_)
join(toks) ==
    IF Len(toks) = 1 THEN toks[1]
    ELSE toks[1] \o <<" ">> \o join(Tail(toks))

\* the tokens between the dimensions and the price, with the wood type and
\* the PAR marker the line carries
TagCases ==
    {[toks |-> <<T_BALTIC, T_EA>>, wood |-> "Baltic", par |-> FALSE],
     [toks |-> <<T_PINE, T_PAR>>, wood |-> "Pine", par |-> TRUE],
     [toks |-> <<T_OAK, T_B>>, wood |-> "Oak", par |-> FALSE],
     [toks |-> <<T_MERANTI, T_EA>>, wood |-> "Mixed", par |-> FALSE],
     [toks |-> <<T_EA>>, wood |-> "Mixed", par |-> FALSE],
     [toks |-> <<T_PAR, T_BALTIC, T_B>>, wood |-> "Baltic", par |-> TRUE],
     [toks |-> <<T_PAR_LOWER, T_PINE>>, wood |-> "Pine", par |-> FALSE]}

\* product lines "<t> X <w> X <l> <tag...> R<p>" built from their fields
ProductCases ==
    {[text |-> join(<<nat_chars(t), <<sep>>, nat_chars(w), <<sep>>, nat_chars(l)>>
                    \o g.toks \o <<<<"R">> \o nat_chars(p)>>),
      t |-> t, w |-> w, l |-> l, tag |-> g, p |-> p] :
        t \in {23, 38}, w \in {100}, l \in {2500, 0}, p \in {40, 0},
        sep \in {"X", "x"}, g \in TagCases}

\* product lines "<t> X <w> X <l> <tag...> <p>": the price typed without `R`
BarePriceCases ==
    {[text |-> join(<<nat_chars(23), <<sep>>, nat_chars(100), <<sep>>, nat_chars(2500)>>
                    \o g.toks \o <<nat_chars(p)>>),
      tag |-> g, p |-> p] :
        p \in {40, 0}, sep \in {"X", "x"}, g \in TagCases}

ParseFiles ==
    SeqsUpTo(ParsePool, MaxLines)
        \cup {<<h, L_BALTIC>> : h \in HeaderVariants}
        \cup {<<h, l, L_BALTIC>> : h \in ProbeHeaders, l \in ProbeLines}
        \cup {<<h, c.text>> : h \in CanonicalHeaders, c \in ProductCases}
        \cup {<<h, c.text>> : h \in CanonicalHeaders, c \in BarePriceCases}

DriverLines == {L_BALTIC, L_PINE_PAR, L_ZERO_LEN, L_OTHER, L_ZERO_PRICE}
DriverFiles == {<<H_A_GRADE_LONG_TIMBERS>> \o body : body \in SeqsUpTo(DriverLines, MaxRecords)}

\* two lines with the same dimensions and different wood type, finish, price
\* and name, under each header
SectionFiles == {<<h, L_BALTIC, L_PINE_PAR>> : h \in CanonicalHeaders}

\* a line with a zero or negative dimension or price, before a valid one
NonPositiveLines == {L_ZERO_LEN, L_ZERO_PRICE, L_NEG, L_NEG_DIM, L_NEG_PRICE}
NonPositiveFiles == {<<H_PALLETS, l, L_OTHER>> : l \in NonPositiveLines}

\* the table before a run: empty, or holding the row of an earlier import
InitialStores ==
    {<<>>,
     insert_row(<<>>, 0, [parse_product_line(L_OTHER, "AGradeLongTimbers").val
                             EXCEPT !.sku = "LT-A-38x114x3000"], 0)}

Drivers == {"main1", "main2", "lib"}

(***************************************************************************)
(* parse_price_list, one loop iteration per step                           *)
(***************************************************************************)
ParseLine ==
    /\ parse_pc = "loop"
    /\ pos <= Len(lines)
    /\ LET r == loop_body(current_section, lines[pos])
           out == IF r.emit.some THEN vec_push(products, r.emit.val) ELSE products
       IN  /\ current_section' = r.section
           /\ products' = out
           /\ trace' = Append(trace, [branch |-> r.branch, before |-> current_section,
                                      section |-> r.section, emitted |-> Len(out)])
    /\ pos' = pos + 1
    /\ UNCHANGED <<lines, io, saved, parse_pc, driverVars>>

ParseReturn ==
    /\ parse_pc = "loop"
    /\ pos > Len(lines)
    /\ parse_pc' = "done"
    /\ UNCHANGED <<lines, io, saved, pos, current_section, products, trace, driverVars>>

(***************************************************************************)
(* bin/seed.rs: main                                                       *)
(***************************************************************************)
\* the exit of a driver that has not entered its loop
Fail(d, e) ==
    /\ pc' = [pc EXCEPT ![d] = "failed"]
    /\ err' = [err EXCEPT ![d] = e]
    /\ UNCHANGED prods

\* product_with_sku and `now`, bound before the INSERT is awaited
Pending(p, now) == [some |-> TRUE, val |-> p, now |-> now]

\* why an INSERT failed: rejected by the uniqueness constraint, or a store error
InsertFailure(sku) == IF unique_violation(store, sku) THEN "rejected" ELSE "error"

Logged(d, op, i, outcome) == log' = [log EXCEPT ![d] = Append(@, [op |-> op, rec |-> i, outcome |-> outcome])]

\* Config::init, create_pool, Path::exists, parse_price_list
MainStart(d) ==
    /\ pc[d] = "start"
    /\ \E config_ok \in BOOLEAN, pool_ok \in BOOLEAN :
         LET parsed == parse_price_list_path(io, lines)
         IN  IF ~config_ok THEN Fail(d, "Panic")
             ELSE IF ~pool_ok THEN Fail(d, "DbError")
             ELSE IF ~path_exists(io) THEN Fail(d, "Unknown")
             ELSE IF ~parsed.ok THEN Fail(d, parsed.err)
             ELSE /\ prods' = [prods EXCEPT ![d] = parsed.val]
                  /\ pc' = [pc EXCEPT ![d] = "check"]
                  /\ UNCHANGED err
    /\ UNCHANGED <<lines, io, saved, parseVars, store, idx, cur, success_count, error_count, log, clock>>

\* an invalid record skipped without being counted
MainInvalid_not_counted(d) ==
    /\ idx' = [idx EXCEPT ![d] = @ + 1]
    /\ UNCHANGED <<pc, cur, success_count, error_count, log>>

\* `if let Err(e) = product.validate()`: count the failure, next record
MainInvalid(d) ==
    /\ error_count' = [error_count EXCEPT ![d] = @ + 1]
    /\ idx' = [idx EXCEPT ![d] = @ + 1]
    /\ UNCHANGED <<pc, cur, success_count, log>>

\* the SELECT failed and the error is propagated out of main
MainSelectError_abort(d) ==
    /\ pc' = [pc EXCEPT ![d] = "failed"]
    /\ Logged(d, "select", idx[d], "error")
    /\ UNCHANGED <<idx, cur, success_count, error_count>>

\* the SELECT failed: count the failure, next record
MainSelectError(d) ==
    /\ error_count' = [error_count EXCEPT ![d] = @ + 1]
    /\ idx' = [idx EXCEPT ![d] = @ + 1]
    /\ Logged(d, "select", idx[d], "error")
    /\ UNCHANGED <<pc, cur, success_count>>

\* `if exists` counted with the failures
MainExists_counted_as_failure(d) ==
    /\ error_count' = [error_count EXCEPT ![d] = @ + 1]
    /\ idx' = [idx EXCEPT ![d] = @ + 1]
    /\ Logged(d, "select", idx[d], "found")
    /\ UNCHANGED <<pc, cur, success_count>>

\* `if exists` falling through to the INSERT
MainExists_reinsert(d) ==
    /\ pc' = [pc EXCEPT ![d] = "insert"]
    /\ cur' = [cur EXCEPT ![d] = Pending([prods[d][idx[d]] EXCEPT
                                             !.sku = generate_sku(prods[d][idx[d]])], clock)]
    /\ Logged(d, "select", idx[d], "found")
    /\ UNCHANGED <<idx, success_count, error_count>>

\* `if exists`: already seeded, counted as a success, next record
MainExists(d) ==
    /\ success_count' = [success_count EXCEPT ![d] = @ + 1]
    /\ idx' = [idx EXCEPT ![d] = @ + 1]
    /\ Logged(d, "select", idx[d], "found")
    /\ UNCHANGED <<pc, cur, error_count>>

\* the SKU is absent: product_with_sku is built and its INSERT is issued
MainAbsent(d, product, sku) ==
    /\ pc' = [pc EXCEPT ![d] = "insert"]
    /\ cur' = [cur EXCEPT ![d] = Pending([product EXCEPT !.sku = sku], clock)]
    /\ Logged(d, "select", idx[d], "absent")
    /\ UNCHANGED <<idx, success_count, error_count>>

\* one loop iteration up to the result of the SELECT
MainCheck(d) ==
    /\ pc[d] = "check"
    /\ idx[d] <= Len(prods[d])
    /\ \E db_ok \in BOOLEAN :
         LET product == prods[d][idx[d]]
             sku == IF product.sku = "" THEN generate_sku(product) ELSE product.sku
         IN  IF validate(product) # "Ok" THEN MainInvalid(d)
             ELSE IF ~db_ok THEN MainSelectError(d)
             ELSE IF sku_exists(store, sku) THEN MainExists(d)
             ELSE MainAbsent(d, product, sku)
    /\ clock' = clock + 1
    /\ UNCHANGED <<lines, io, saved, parseVars, store, prods, err>>

\* `Ok(_)`: the row is in the table, counted as a success
MainInsertOk(d) ==
    /\ store' = insert_row(store, Len(store) + 1, cur[d].val, cur[d].now)
    /\ success_count' = [success_count EXCEPT ![d] = @ + 1]
    /\ Logged(d, "insert", idx[d], "ok")
    /\ idx' = [idx EXCEPT ![d] = @ + 1]
    /\ pc' = [pc EXCEPT ![d] = "check"]
    /\ UNCHANGED error_count

\* `Err(e)` counted with the successes
MainInsertError_as_success(d) ==
    /\ success_count' = [success_count EXCEPT ![d] = @ + 1]
    /\ Logged(d, "insert", idx[d], InsertFailure(cur[d].val.sku))
    /\ idx' = [idx EXCEPT ![d] = @ + 1]
    /\ pc' = [pc EXCEPT ![d] = "check"]
    /\ UNCHANGED <<store, error_count>>

\* `Err(e)`: the INSERT was rejected, counted as a failure, next record
MainInsertError(d) ==
    /\ error_count' = [error_count EXCEPT ![d] = @ + 1]
    /\ Logged(d, "insert", idx[d], InsertFailure(cur[d].val.sku))
    /\ idx' = [idx EXCEPT ![d] = @ + 1]
    /\ pc' = [pc EXCEPT ![d] = "check"]
    /\ UNCHANGED <<store, success_count>>

\* the INSERT of the current product and the match on its result
MainInsert(d) ==
    /\ pc[d] = "insert"
    /\ \E db_ok \in BOOLEAN :
         IF db_ok /\ ~unique_violation(store, cur[d].val.sku)
         THEN MainInsertOk(d)
         ELSE MainInsertError(d)
    /\ cur' = [cur EXCEPT ![d] = None]
    /\ clock' = clock + 1
    /\ UNCHANGED <<lines, io, saved, parseVars, prods, err>>

\* main returning an error after a loop in which no record succeeded
MainSummary_fail_when_none_succeeded(d) ==
    /\ pc[d] = "check"
    /\ idx[d] > Len(prods[d])
    /\ pc' = [pc EXCEPT ![d] = IF success_count[d] = 0 /\ error_count[d] > 0
                                 THEN "failed" ELSE "done"]
    /\ UNCHANGED <<lines, io, saved, parseVars, store, prods, idx, cur, success_count, error_count, log, err, clock>>

\* the loop is over: the summary is printed and main returns Ok(())
MainSummary(d) ==
    /\ pc[d] = "check"
    /\ idx[d] > Len(prods[d])
    /\ pc' = [pc EXCEPT ![d] = "done"]
    /\ UNCHANGED <<lines, io, saved, parseVars, store, prods, idx, cur, success_count, error_count, log, err, clock>>

(***************************************************************************)
(* utils/seeder.rs: seed_database                                          *)
(***************************************************************************)
\* parse_price_list(file_path)?
LibStart ==
    /\ pc["lib"] = "start"
    /\ LET parsed == parse_price_list_path(io, lines)
       IN  IF ~parsed.ok THEN Fail("lib", parsed.err)
           ELSE /\ prods' = [prods EXCEPT !["lib"] = parsed.val]
                /\ pc' = [pc EXCEPT !["lib"] = "check"]
                /\ UNCHANGED err
    /\ UNCHANGED <<lines, io, saved, parseVars, store, idx, cur, success_count, error_count, log, clock>>

\* `.fetch_optional(pool).await?` on a failed SELECT: seed_database returns Err
LibSelectError ==
    /\ pc' = [pc EXCEPT !["lib"] = "failed"]
    /\ err' = [err EXCEPT !["lib"] = "DbError"]
    /\ Logged("lib", "select", idx["lib"], "error")
    /\ UNCHANGED <<idx, cur>>

\* `.execute(pool).await?` on a rejected INSERT: seed_database returns Err
LibInsertError ==
    /\ pc' = [pc EXCEPT !["lib"] = "failed"]
    /\ err' = [err EXCEPT !["lib"] = "DbError"]
    /\ Logged("lib", "insert", idx["lib"], InsertFailure(cur["lib"].val.sku))
    /\ UNCHANGED <<store, idx>>

\* seed_database without its validate() call: every absent record is inserted
LibCheck_without_validate ==
    /\ pc["lib"] = "check"
    /\ idx["lib"] <= Len(prods["lib"])
    /\ \E db_ok \in BOOLEAN :
         LET product == prods["lib"][idx["lib"]]
             sku == generate_sku(product)
             product_with_sku == [product EXCEPT !.sku = sku]
         IN  IF ~db_ok
             THEN LibSelectError
             ELSE IF sku_exists(store, sku)
             THEN /\ idx' = [idx EXCEPT !["lib"] = @ + 1]
                  /\ Logged("lib", "select", idx["lib"], "found")
                  /\ UNCHANGED <<pc, cur, err>>
             ELSE /\ pc' = [pc EXCEPT !["lib"] = "insert"]
                  /\ cur' = [cur EXCEPT !["lib"] = Pending(product_with_sku, clock)]
                  /\ Logged("lib", "select", idx["lib"], "absent")
                  /\ UNCHANGED <<idx, err>>
    /\ clock' = clock + 1
    /\ UNCHANGED <<lines, io, saved, parseVars, store, prods, success_count, error_count>>

\* one loop iteration up to the INSERT: the SELECT (`.await?`), the exists
\* test and validate()
LibCheck ==
    /\ pc["lib"] = "check"
    /\ idx["lib"] <= Len(prods["lib"])
    /\ \E db_ok \in BOOLEAN :
         LET product == prods["lib"][idx["lib"]]
             sku == generate_sku(product)
             product_with_sku == [product EXCEPT !.sku = sku]
         IN  IF ~db_ok
             THEN LibSelectError
             ELSE IF sku_exists(store, sku)
             THEN /\ idx' = [idx EXCEPT !["lib"] = @ + 1]
                  /\ Logged("lib", "select", idx["lib"], "found")
                  /\ UNCHANGED <<pc, cur, err>>
             ELSE IF validate(product_with_sku) # "Ok"
             THEN /\ idx' = [idx EXCEPT !["lib"] = @ + 1]
                  /\ Logged("lib", "select", idx["lib"], "absent")
                  /\ UNCHANGED <<pc, cur, err>>
             ELSE /\ pc' = [pc EXCEPT !["lib"] = "insert"]
                  /\ cur' = [cur EXCEPT !["lib"] = Pending(product_with_sku, clock)]
                  /\ Logged("lib", "select", idx["lib"], "absent")
                  /\ UNCHANGED <<idx, err>>
    /\ clock' = clock + 1
    /\ UNCHANGED <<lines, io, saved, parseVars, store, prods, success_count, error_count>>

\* the INSERT (`.await?`)
LibInsert ==
    /\ pc["lib"] = "insert"
    /\ \E db_ok \in BOOLEAN :
         IF db_ok /\ ~unique_violation(store, cur["lib"].val.sku)
         THEN /\ store' = insert_row(store, Len(store) + 1, cur["lib"].val, cur["lib"].now)
              /\ idx' = [idx EXCEPT !["lib"] = @ + 1]
              /\ pc' = [pc EXCEPT !["lib"] = "check"]
              /\ Logged("lib", "insert", idx["lib"], "ok")
              /\ UNCHANGED err
         ELSE LibInsertError
    /\ cur' = [cur EXCEPT !["lib"] = None]
    /\ clock' = clock + 1
    /\ UNCHANGED <<lines, io, saved, parseVars, prods, success_count, error_count>>

\* the loop is over: Ok(())
LibReturn ==
    /\ pc["lib"] = "check"
    /\ idx["lib"] > Len(prods["lib"])
    /\ pc' = [pc EXCEPT !["lib"] = "done"]
    /\ UNCHANGED <<lines, io, saved, parseVars, store, prods, idx, cur, success_count, error_count, log, err, clock>>

(***************************************************************************)
(* Specifications                                                          *)
(***************************************************************************)
ParserIdle ==
    /\ pos = 1
    /\ current_section = "None"
    /\ products = <<>>
    /\ trace = <<>>

DriversAt(start) ==
    /\ pc = [d \in Drivers |-> IF d \in start THEN "start" ELSE "idle"]
    /\ prods = [d \in Drivers |-> <<>>]
    /\ idx = [d \in Drivers |-> 1]
    /\ cur = [d \in Drivers |-> None]
    /\ success_count = [d \in Drivers |-> 0]
    /\ error_count = [d \in Drivers |-> 0]
    /\ log = [d \in Drivers |-> <<>>]
    /\ err = [d \in Drivers |-> "none"]
    /\ clock = 1
    /\ saved = [initial |-> store, main |-> None]

\* the parser alone, stepping through a file
ParseInit ==
    /\ lines \in ParseFiles
    /\ io = IoOk
    /\ ParserIdle
    /\ parse_pc = "loop"
    /\ store = <<>>
    /\ DriversAt({})
ParseNext == ParseLine \/ ParseReturn
ParseSpec == ParseInit /\ [][ParseNext]_vars

\* seed.rs main and seed_database, each run once, against one store
Init ==
    /\ lines \in DriverFiles \cup SectionFiles \cup NonPositiveFiles
    /\ io \in IoCases(lines)
    /\ ParserIdle
    /\ parse_pc = "idle"
    /\ store \in InitialStores
    /\ DriversAt({"main1", "lib"})
Next ==
    \/ MainStart("main1")
    \/ MainCheck("main1")
    \/ MainInsert("main1")
    \/ MainSummary("main1")
    \/ LibStart
    \/ LibCheck
    \/ LibInsert
    \/ LibReturn
Spec == Init /\ [][Next]_vars

\* main is one task that runs on once each awaited store call has returned
FairSpec ==
    /\ Spec
    /\ WF_vars(MainStart("main1"))
    /\ WF_vars(MainCheck("main1"))
    /\ WF_vars(MainInsert("main1"))
    /\ WF_vars(MainSummary("main1"))

\* seed.rs main run twice, the second run after the first has ended
Ended(d) == pc[d] \in {"done", "failed"}
ReseedInit ==
    /\ lines \in DriverFiles
    /\ io \in IoCases(lines)
    /\ ParserIdle
    /\ parse_pc = "idle"
    /\ store \in InitialStores
    /\ DriversAt({"main1", "main2"})
SecondRun ==
    /\ Ended("main1")
    /\ \/ MainStart("main2")
       \/ MainCheck("main2")
       \/ MainInsert("main2")
       \/ MainSummary("main2")
ReseedNext ==
    \/ MainStart("main1")
    \/ MainCheck("main1")
    \/ MainInsert("main1")
    \/ MainSummary("main1")
    \/ SecondRun
ReseedSpec == ReseedInit /\ [][ReseedNext]_vars

\* two seed.rs runs interleaved against one store
RaceInit == ReseedInit
RaceNext == \E d \in {"main1", "main2"} :
    \/ MainStart(d)
    \/ MainCheck(d)
    \/ MainInsert(d)
    \/ MainSummary(d)
RaceSpec == RaceInit /\ [][RaceNext]_vars

\* seed.rs main and seed_database each run alone on the same file and the
\* same initial table: once main has ended its table is set aside and
\* seed_database starts on the initial content
EquivInit ==
    /\ lines \in DriverFiles \cup SectionFiles \cup NonPositiveFiles
    /\ io \in IoCases(lines)
    /\ ParserIdle
    /\ parse_pc = "idle"
    /\ store \in InitialStores
    /\ DriversAt({"main1"})
RestoreTable ==
    /\ Ended("main1")
    /\ pc["lib"] = "idle"
    /\ saved' = [saved EXCEPT !.main = Some(store)]
    /\ store' = saved.initial
    /\ pc' = [pc EXCEPT !["lib"] = "start"]
    /\ UNCHANGED <<lines, io, parseVars, prods, idx, cur, success_count,
                   error_count, log, err, clock>>
EquivNext ==
    \/ MainStart("main1")
    \/ MainCheck("main1")
    \/ MainInsert("main1")
    \/ MainSummary("main1")
    \/ RestoreTable
    \/ LibStart
    \/ LibCheck
    \/ LibInsert
    \/ LibReturn
EquivSpec == EquivInit /\ [][EquivNext]_vars

(***************************************************************************)
(* Properties                                                              *)
(***************************************************************************)
\* what the product model requires of a record: positive dimensions and
\* price, non-negative stock
WellFormed(p) ==
    /\ p.thickness_mm > 0 /\ p.width_mm > 0 /\ p.length_mm > 0
    /\ p.price > 0
    /\ p.stock_quantity >= 0
ValidCount(ps) == Cardinality({i \in 1..Len(ps) : WellFormed(ps[i])})
InsertAttempts(d) == Cardinality({i \in 1..Len(log[d]) : log[d][i].op = "insert"})
NoStoreError(d) == \A i \in 1..Len(log[d]) : log[d][i].outcome # "error"
BothRunsDone == pc["main1"] = "done" /\ pc["main2"] = "done"

C2_NoInvalidPersisted ==
    /\ \A i \in 1..Len(store) : WellFormed(store[i])
    /\ \A d \in Drivers :
         /\ cur[d].some => WellFormed(cur[d].val)
         /\ \A i \in 1..Len(log[d]) :
              log[d][i].op = "insert" => WellFormed(prods[d][log[d][i].rec])

\* both drivers are over, each met a record that fails validation (main counted
\* it; seed_database found its SKU absent and issued no INSERT for it), and a
\* row was inserted
C2_Witness ==
    /\ pc["main1"] = "done" /\ pc["lib"] = "done"
    /\ \E i \in 1..Len(prods["main1"]) : ~WellFormed(prods["main1"][i])
    /\ error_count["main1"] >= 1
    /\ \E i \in 1..Len(log["lib"]) :
         /\ ~WellFormed(prods["lib"][log["lib"][i].rec])
         /\ log["lib"][i].outcome = "absent"
    /\ \E i \in 1..Len(store) : store[i].id >= 1

InLoop(d) == pc[d] \in {"check", "insert"}

\* C3: in seed.rs no step of the loop aborts the batch: a counted failure moves
\* on to the next record, the summary is reached only past the last record,
\* and it is reached
C3_BatchRunsToCompletion ==
    /\ [][InLoop("main1") =>
            /\ pc'["main1"] \in {"check", "insert", "done"}
            /\ idx'["main1"] \in {idx["main1"], idx["main1"] + 1}
            /\ error_count'["main1"] # error_count["main1"] =>
                  /\ pc'["main1"] = "check"
                  /\ idx'["main1"] = idx["main1"] + 1
            /\ pc'["main1"] = "done" => idx["main1"] = Len(prods["main1"]) + 1]_vars
    /\ InLoop("main1") ~> (pc["main1"] = "done")

\* the summary is reached after a store error on one record and a store
\* operation for a later record
C3_Witness ==
    /\ pc["main1"] = "done"
    /\ \E i, j \in 1..Len(log["main1"]) :
         /\ log["main1"][i].outcome = "error"
         /\ log["main1"][j].rec > log["main1"][i].rec

\* C4: in seed_database a store error on the SELECT or the INSERT of one
\* record does not end the batch
C4_LibRecoversLocally ==
    [][InLoop("lib") => pc'["lib"] \in {"check", "insert", "done"}]_vars

NoDuplicateSku ==
    \A i, j \in 1..Len(store) : i # j => store[i].sku # store[j].sku

\* C5: two interleaved seed.rs runs never leave two rows with one SKU, and the
\* run whose INSERT the uniqueness constraint rejects counts one failure, no
\* success, and goes on to its next record
C5_RaceRejectionCounted ==
    /\ []NoDuplicateSku
    /\ [][\A d \in {"main1", "main2"} :
            (pc[d] = "insert" /\ pc'[d] # "insert"
               /\ unique_violation(store, cur[d].val.sku)) =>
                  /\ error_count'[d] = error_count[d] + 1
                  /\ success_count'[d] = success_count[d]
                  /\ pc'[d] = "check"
                  /\ idx'[d] = idx[d] + 1]_vars

\* both runs found one SKU absent, one INSERT went through, the other was
\* rejected, and the rejected run reached its summary
C5_Witness ==
    \E d, e \in {"main1", "main2"} :
        /\ d # e
        /\ pc[d] = "done"
        /\ \E i \in 1..Len(log[d]), j \in 1..Len(log[e]) :
             /\ log[d][i].op = "insert" /\ log[d][i].outcome = "rejected"
             /\ log[e][j].op = "insert" /\ log[e][j].outcome = "ok"
             /\ generate_sku(prods[d][log[d][i].rec]) = generate_sku(prods[e][log[e][j].rec])

(***************************************************************************)
(* The parser, read off the per-line trace                                 *)
(***************************************************************************)
\* the header phrases and their sections (spec 4.2, 6)
SpecSection(u) ==
    CASE u = H_HEAVY_DUTY_WOODEN_BOXES -> "HeavyDutyBoxes"
      [] u = H_PALLETS -> "Pallets"
      [] u = H_A_GRADE_LONG_TIMBERS -> "AGradeLongTimbers"
      [] u = H_B_GRADE_LONG_TIMBERS -> "BGradeLongTimbers"
      [] u = H_A_GRADE_SHORT_TIMBERS -> "AGradeShortTimbers"
      [] u = H_B_GRADE_SHORT_TIMBERS -> "BGradeShortTimbers"
      [] u = H_PLANED_BOTH_SIDES -> "PlanedBothSides"
      [] u = H_PLANED_ALL_ROUND -> "PlanedAllRound"
      [] u = H_MACHINED_TIMBERS -> "MachinedTimbers"
      [] u = H_SHORT_BALTIC_COMPONENTS -> "ShortBalticComponents"
      [] u = H_LAMINATED_BALTIC -> "LaminatedBaltic"
      [] u = H_INT_EXTERIOR_PLYWOOD -> "Plywood"
      [] u = H_INTERIOR_PLYWOOD -> "Plywood"
Normalized(raw) == to_uppercase(trim(raw))
IsHeaderText(raw) == Normalized(raw) \in CanonicalHeaders
SetMax(S) == CHOOSE m \in S : \A n \in S : n <= m
HeadersUpTo(i) == {j \in 1..i : IsHeaderText(lines[j])}
SectionAfter(i) == IF i = 0 THEN "None" ELSE trace[i].section
EmittedAfter(i) == IF i = 0 THEN 0 ELSE trace[i].emitted

\* C6: the current section is the one left by the previous line; a line that
\* is not a header leaves it unchanged and pushes a record only if it parses
\* as a product; the section of a header lasts until the next header
C6_SectionChangesOnlyOnHeader ==
    /\ current_section = SectionAfter(Len(trace))
    /\ \A i \in 1..Len(trace) :
         /\ trace[i].before = SectionAfter(i - 1)
         /\ ~IsHeaderText(lines[i]) =>
               /\ trace[i].branch # "header"
               /\ trace[i].section = trace[i].before
               /\ trace[i].emitted # EmittedAfter(i - 1) =>
                     parse_product_line(trim(lines[i]), trace[i].before).some
         /\ HeadersUpTo(i) # {} =>
               trace[i].section = trace[SetMax(HeadersUpTo(i))].section

\* "UNKNOWN SECTION" was read in a known section, no record was pushed for it,
\* and the next line was parsed as a product of that section
C6_Witness ==
    \E i \in 1..Len(trace) :
        /\ trim(lines[i]) = L_UNKNOWN_SECTION
        /\ trace[i].before # "None"
        /\ trace[i].emitted = EmittedAfter(i - 1)
        /\ i < Len(trace)
        /\ trace[i + 1].branch = "product"
        /\ products[trace[i + 1].emitted].category
             = section_to_category_grade(trace[i].before)[1]

\* C7: no line read while the section is None pushes a record, no record has
\* category Custom, and a file without a header yields no record
C7_NoRecordWithoutSection ==
    /\ \A i \in 1..Len(trace) :
         trace[i].before = "None" => trace[i].emitted = EmittedAfter(i - 1)
    /\ \A k \in 1..Len(products) : products[k].category # "Custom"
    /\ (parse_pc = "done" /\ HeadersUpTo(Len(lines)) = {}) => products = <<>>

\* a well-formed product line was read before any header and was ignored
C7_Witness ==
    /\ parse_pc = "done"
    /\ products = <<>>
    /\ \E i \in 1..Len(trace) :
         /\ lines[i] = L_BALTIC
         /\ trace[i].before = "None"
         /\ trace[i].branch = "ignored"

\* C8: one forward pass; each line pushes at most one record, at the end of the
\* output; a record comes from a non-empty non-header line, whose text it
\* keeps, and has the category and grade of the last header before that line
C8_OutputInSourceOrder ==
    /\ pos = Len(trace) + 1
    /\ Len(products) = EmittedAfter(Len(trace))
    /\ \A i \in 1..Len(trace) :
         LET n == trace[i].emitted
         IN  /\ n \in {EmittedAfter(i - 1), EmittedAfter(i - 1) + 1}
             /\ n = EmittedAfter(i - 1) + 1 =>
                   /\ trim(lines[i]) # <<>>
                   /\ ~IsHeaderText(lines[i])
                   /\ products[n].description = Some(trim(lines[i]))
                   /\ HeadersUpTo(i) # {}
                   /\ <<products[n].category, products[n].grade>> =
                        section_to_category_grade(
                            SpecSection(Normalized(lines[SetMax(HeadersUpTo(i))])))

\* the pass is over and has pushed two records from different lines, in the
\* order of those lines
C8_Witness ==
    /\ parse_pc = "done"
    /\ Len(products) >= 2
    /\ products[1].description # products[2].description
    /\ \E i, j \in 1..Len(trace) :
         /\ i < j
         /\ trace[i].branch = "product" /\ trace[j].branch = "product"

\* C9: a line takes the header branch iff its trimmed, upper-cased text is one
\* of the 13 header phrases, and the section is then the one of that phrase;
\* a phrase typed in any letter case with padding is a header, a phrase
\* followed by further characters is not
C9_HeaderIffCanonical ==
    /\ \A i \in 1..Len(trace) :
         /\ trace[i].branch = "header" <=> Normalized(lines[i]) \in CanonicalHeaders
         /\ Normalized(lines[i]) \in CanonicalHeaders =>
               trace[i].section = SpecSection(Normalized(lines[i]))
    /\ (Len(trace) = 1 /\ lines[1] \in HeaderVariants) =>
         \A c \in HeaderCases :
              lines[1] = c.text =>
                 IF c.extra = <<>>
                 THEN /\ trace[1].branch = "header"
                      /\ trace[1].section = SpecSection(c.phrase)
                 ELSE trace[1].branch # "header"

\* "interior plywood", typed in lower or mixed case with padding, opened the
\* Plywood section and the next line was parsed as a Plywood product
C9_Witness ==
    /\ Len(trace) = 2
    /\ lines[1] \notin CanonicalHeaders
    /\ Head(lines[1]) \in WhiteSpace
    /\ Normalized(lines[1]) = H_INTERIOR_PLYWOOD
    /\ trace[1].branch = "header"
    /\ trace[1].section = "Plywood"
    /\ trace[2].branch = "product"
    /\ products[1].category = "Plywood"

\* a token of the form R<integer>
IsPriceToken(t) == Len(t) >= 1 /\ t[1] = "R" /\ parse_i32(Tail(t)).ok
Defective(line) ==
    LET parts == split_whitespace(line)
    IN  \/ Len(parts) < 7
        \/ ~parse_i32(parts[1]).ok
        \/ ~parse_i32(parts[3]).ok
        \/ ~parse_i32(parts[5]).ok
        \/ ~\E k \in 1..Len(parts) : IsPriceToken(parts[k])
        \/ ~\E k \in 1..Len(line) : line[k] \in {"x", "X"}

\* C10: a non-header line with fewer than 7 tokens, a non-integer token 0, 2 or
\* 4, no R<integer> token or no x/X pushes no record, and the pass goes on to
\* the end of the file
C10_DefectiveLineYieldsNothing ==
    /\ \A i \in 1..Len(trace) :
         (trim(lines[i]) # <<>> /\ ~IsHeaderText(lines[i]) /\ Defective(trim(lines[i]))) =>
             /\ trace[i].branch \in {"rejected", "ignored"}
             /\ trace[i].emitted = EmittedAfter(i - 1)
             /\ products = <<>> \/ \A k \in 1..Len(products) :
                   products[k].description # Some(trim(lines[i]))
    /\ parse_pc = "done" => Len(trace) = Len(lines)

\* a 6-token line was rejected in a known section and the next line was parsed
C10_Witness ==
    \E i \in 1..Len(trace) :
        /\ lines[i] = L_SHORT
        /\ trace[i].before # "None"
        /\ trace[i].branch = "rejected"
        /\ i < Len(trace)
        /\ trace[i + 1].branch = "product"
(***************************************************************************)
(* C11-C13: the record parse_product_line builds                           *)
(***************************************************************************)
\* a file of one header and one constructed product line, read to the end
ReadCase(c) ==
    /\ parse_pc = "done"
    /\ Len(lines) = 2
    /\ lines[1] \in CanonicalHeaders
    /\ lines[2] = c.text

\* C11: under every section other than None, an accepted line
\* "<t> X <w> X <l> <tag...> R<p>" of at least 7 tokens yields one record with
\* thickness_mm = t, width_mm = w, length_mm = l, price = p, the name
\* "<t> x <w> x <l> <WoodTypeName>", stock_quantity 10, unit_of_measure "EA",
\* the line as description, an empty sku and no image_url; and under
\* A GRADE LONG TIMBERS the line "23 X 100 X 2500 BALTIC EA R40" yields
\* (23, 100, 2500, Baltic, LongTimber, AGrade, Rough, 40).
C11_ProductLineFields ==
    /\ \A c \in ProductCases :
          ReadCase(c) =>
            /\ Len(products) = 1
            /\ products[1].thickness_mm = c.t
            /\ products[1].width_mm = c.w
            /\ products[1].length_mm = c.l
            /\ products[1].price = c.p
            /\ products[1].name = ToString(c.t) \o " x " \o ToString(c.w) \o " x "
                                    \o ToString(c.l) \o " " \o c.tag.wood
            /\ products[1].wood_type = c.tag.wood
            /\ products[1].stock_quantity = 10
            /\ products[1].unit_of_measure = "EA"
            /\ products[1].description = Some(c.text)
            /\ products[1].sku = ""
            /\ products[1].image_url = None
    /\ \A i \in 1..Len(trace) :
          trace[i].branch = "product" =>
            products[trace[i].emitted].description = Some(trim(lines[i]))
    /\ (parse_pc = "done" /\ lines = <<H_A_GRADE_LONG_TIMBERS, L_BALTIC>>) =>
          /\ Len(products) = 1
          /\ products[1].thickness_mm = 23
          /\ products[1].width_mm = 100
          /\ products[1].length_mm = 2500
          /\ products[1].wood_type = "Baltic"
          /\ products[1].category = "LongTimber"
          /\ products[1].grade = "AGrade"
          /\ products[1].finish = "Rough"
          /\ products[1].price = 40

\* a seven-token line with lower-case separators has been read under PALLETS
C11_Witness ==
    \E c \in ProductCases :
        /\ ReadCase(c)
        /\ lines[1] = H_PALLETS
        /\ Len(split_whitespace(c.text)) = 7
        /\ contains_char(c.text, "x")
        /\ Len(products) = 1
        /\ products[1].length_mm = 2500

\* the variants of PriceListSection
Sections ==
    {"HeavyDutyBoxes", "Pallets", "AGradeLongTimbers", "BGradeLongTimbers",
     "AGradeShortTimbers", "BGradeShortTimbers", "PlanedBothSides", "PlanedAllRound",
     "MachinedTimbers", "ShortBalticComponents", "LaminatedBaltic", "Plywood", "None"}

\* the lookup table Section -> (ProductCategory, ProductGrade) as a function
CategoryGradeTable ==
    [s \in Sections |->
        IF s = "HeavyDutyBoxes" THEN <<"HeavyDutyBox", "Standard">>
        ELSE IF s = "Pallets" THEN <<"Pallet", "Standard">>
        ELSE IF s \in {"AGradeLongTimbers", "BGradeLongTimbers"}
             THEN <<"LongTimber", IF s = "AGradeLongTimbers" THEN "AGrade" ELSE "BGrade">>
        ELSE IF s \in {"AGradeShortTimbers", "BGradeShortTimbers"}
             THEN <<"ShortTimber", IF s = "AGradeShortTimbers" THEN "AGrade" ELSE "BGrade">>
        ELSE IF s \in {"PlanedBothSides", "PlanedAllRound"} THEN <<"PlanedTimber", "Standard">>
        ELSE IF s = "MachinedTimbers" THEN <<"MachinedTimber", "Standard">>
        ELSE IF s = "ShortBalticComponents" THEN <<"Component", "Standard">>
        ELSE IF s = "LaminatedBaltic" THEN <<"LaminatedTable", "Standard">>
        ELSE IF s = "Plywood" THEN <<"Plywood", "Standard">>
        ELSE <<"Custom", "Standard">>]

\* the tokens of line i as the parser sees them
TokensOf(i) == split_whitespace(trim(lines[i]))
HasToken(i, t) == \E k \in 1..Len(TokensOf(i)) : TokensOf(i)[k] = t

\* C12: the (category, grade) of a parsed record is the entry of the 13-row
\* table for the section in force, for every section variant (None gives
\* (Custom, Standard)), whatever the tokens of the line: a `B` token leaves
\* the grade alone.
C12_CategoryGradeBySection ==
    /\ \A s \in Sections : section_to_category_grade(s) = CategoryGradeTable[s]
    /\ \A i \in 1..Len(trace) :
          trace[i].branch = "product" =>
            /\ trace[i].before \in Sections
            /\ products[trace[i].emitted].category = CategoryGradeTable[trace[i].before][1]
            /\ products[trace[i].emitted].grade = CategoryGradeTable[trace[i].before][2]
    /\ \A c \in ProductCases :
          ReadCase(c) =>
            /\ Len(products) = 1
            /\ products[1].category = CategoryGradeTable[SpecSection(lines[1])][1]
            /\ products[1].grade = CategoryGradeTable[SpecSection(lines[1])][2]

\* a line carrying a `B` token has been parsed under A GRADE SHORT TIMBERS
\* and its record is graded AGrade
C12_Witness ==
    /\ parse_pc = "done"
    /\ Len(lines) = 2
    /\ lines[1] = H_A_GRADE_SHORT_TIMBERS
    /\ HasToken(2, T_B)
    /\ Len(products) = 1
    /\ products[1].grade = "AGrade"

\* the sections that fix the finish, and the finish each one fixes
FinishBySection ==
    [s \in {"PlanedBothSides", "PlanedAllRound", "MachinedTimbers", "LaminatedBaltic"} |->
        IF s = "PlanedBothSides" THEN "PlanedBothSides"
        ELSE IF s = "PlanedAllRound" THEN "PlanedAllRound"
        ELSE IF s = "MachinedTimbers" THEN "Machined"
        ELSE "Laminated"]

\* the finish of a record parsed under `section` from a line with or
\* without a token equal to PAR
FinishFor(section, par) ==
    IF section \in DOMAIN FinishBySection THEN FinishBySection[section]
    ELSE IF par THEN "PlanedAllRound" ELSE "Rough"

\* C13: under PLANED BOTH SIDES, PLANED ALL ROUND, MACHINED TIMBERS and
\* LAMINATED BALTIC the finish of a parsed record is the one the section
\* fixes, with or without a `PAR` token; under every other section it is
\* PlanedAllRound iff some token of the line equals `PAR`, else Rough.
C13_FinishResolution ==
    /\ \A i \in 1..Len(trace) :
          trace[i].branch = "product" =>
            products[trace[i].emitted].finish = FinishFor(trace[i].before, HasToken(i, T_PAR))
    /\ \A c \in ProductCases :
          ReadCase(c) =>
            /\ Len(products) = 1
            /\ products[1].finish = FinishFor(SpecSection(lines[1]), c.tag.par)

\* a line with a `PAR` token has been parsed under MACHINED TIMBERS and its
\* record is Machined
C13_Witness ==
    \E c \in ProductCases :
        /\ ReadCase(c)
        /\ lines[1] = H_MACHINED_TIMBERS
        /\ c.tag.par
        /\ Len(products) = 1
        /\ products[1].finish = "Machined"

(***************************************************************************)
(* C14: generate_sku                                                       *)
(***************************************************************************)
\* the codes of the SKU format CAT-GRADE-DIMxDIMxDIM
CategoryCodes ==
    [c \in {"HeavyDutyBox", "Pallet", "LongTimber", "ShortTimber", "PlanedTimber",
             "MachinedTimber", "Component", "LaminatedTable", "Plywood", "Custom"} |->
        IF c = "HeavyDutyBox" THEN "HDB" ELSE IF c = "Pallet" THEN "PAL"
        ELSE IF c = "LongTimber" THEN "LT" ELSE IF c = "ShortTimber" THEN "ST"
        ELSE IF c = "PlanedTimber" THEN "PT" ELSE IF c = "MachinedTimber" THEN "MT"
        ELSE IF c = "Component" THEN "COMP" ELSE IF c = "LaminatedTable" THEN "LAM"
        ELSE IF c = "Plywood" THEN "PLY" ELSE "CUST"]
GradeCodes ==
    [g \in {"AGrade", "BGrade", "Standard"} |->
        IF g = "AGrade" THEN "A" ELSE IF g = "BGrade" THEN "B" ELSE "S"]
SkuFormat(r) ==
    CategoryCodes[r.category] \o "-" \o GradeCodes[r.grade] \o "-"
        \o ToString(r.thickness_mm) \o "x" \o ToString(r.width_mm)
        \o "x" \o ToString(r.length_mm)

\* the five fields the SKU is built from
SkuKey(r) == <<r.category, r.grade, r.thickness_mm, r.width_mm, r.length_mm>>

\* the parsed records of the drivers
Parsed == UNION {{prods[d][i] : i \in 1..Len(prods[d])} : d \in Drivers}

\* C14: the SKU generated for a record with an empty sku is
\* "<CategoryCode>-<GradeCode>-<t>x<w>x<l>" of its category, grade and three
\* dimensions: two records equal in those five fields get the same SKU
\* whatever their wood_type, finish, price or name, and a further call on
\* the same record returns the same SKU.
C14_SkuPureFunction ==
    /\ \A p \in Parsed :
          /\ p.sku = ""
          /\ generate_sku(p) = SkuFormat(p)
    /\ \A p, q \in Parsed : SkuKey(p) = SkuKey(q) => generate_sku(p) = generate_sku(q)
    /\ \A d \in Drivers :
          cur[d].some =>
            /\ cur[d].val = [prods[d][idx[d]] EXCEPT !.sku = cur[d].val.sku]
            /\ cur[d].val.sku = SkuFormat(cur[d].val)
            /\ generate_sku(prods[d][idx[d]]) = cur[d].val.sku
    /\ \A d, e \in Drivers :
          (cur[d].some /\ cur[e].some /\ SkuKey(cur[d].val) = SkuKey(cur[e].val))
            => cur[d].val.sku = cur[e].val.sku
    /\ \A i \in 1..Len(store) : store[i].sku = SkuFormat(store[i])

\* main and seed_database each await the INSERT of a record with the same
\* five fields and SKU, one Baltic and rough, the other Pine and planed
C14_Witness ==
    /\ cur["main1"].some
    /\ cur["lib"].some
    /\ SkuKey(cur["main1"].val) = SkuKey(cur["lib"].val)
    /\ cur["main1"].val.sku = cur["lib"].val.sku
    /\ cur["main1"].val.wood_type # cur["lib"].val.wood_type
    /\ cur["main1"].val.finish # cur["lib"].val.finish
    /\ cur["main1"].val.price # cur["lib"].val.price
    /\ cur["main1"].val.name # cur["lib"].val.name
    /\ cur["main1"].val.category = "Plywood"

(***************************************************************************)
(* C15: exit of seed.rs main                                               *)
(***************************************************************************)
\* main has ended with an error or a panic before its loop: nothing counted,
\* no store operation issued for a record
BeforeLoop(d) ==
    /\ prods[d] = <<>>
    /\ idx[d] = 1
    /\ success_count[d] = 0
    /\ error_count[d] = 0
    /\ log[d] = <<>>
    /\ ~cur[d].some

\* a failed exit of main comes from one of the given causes, before the loop
FailedFor(causes) ==
    pc["main1"] = "failed" =>
        /\ err["main1"] \in causes
        /\ err["main1"] = "Unknown" => io.open = "missing"
        /\ err["main1"] = "IoError" => io # IoOk
        /\ BeforeLoop("main1")

\* main returns Ok(()) at the end of the loop
ReturnsOk ==
    pc["main1"] = "done" => err["main1"] = "none" /\ idx["main1"] = Len(prods["main1"]) + 1

\* C15 as stated: once the import loop has run main returns success
\* whatever the counts; it ends with an error only when the input file is
\* missing or unreadable or the store cannot be reached, and then no record
\* is inserted.
C15_ExitOnlyFileOrStore ==
    /\ [][InLoop("main1") => pc'["main1"] # "failed"]_vars
    /\ [](FailedFor({"Unknown", "IoError", "DbError"}))
    /\ []ReturnsOk

\* C15 amended: once the import loop has run main returns success whatever
\* the counts; it ends abnormally only when Config::init panics, the store
\* cannot be reached, or the input file is missing or unreadable, and then
\* no record is inserted.
C15_ExitOnlyBeforeLoop ==
    /\ [][InLoop("main1") => pc'["main1"] # "failed"]_vars
    /\ [](FailedFor({"Panic", "Unknown", "IoError", "DbError"}))
    /\ []ReturnsOk

\* main has returned success after a loop in which every record failed
C15_Witness ==
    /\ pc["main1"] = "done"
    /\ Len(prods["main1"]) = MaxRecords
    /\ success_count["main1"] = 0
    /\ error_count["main1"] = MaxRecords

(***************************************************************************)
(* C16: a source that cannot be opened or read                             *)
(***************************************************************************)
\* C16: when price_list.txt cannot be opened, or one of its lines cannot be
\* read, read_lines fails with IoError, parse_price_list returns that error
\* and no record list, and seed_database ends with it having issued no
\* SELECT and no INSERT.
C16_UnreadableSourceStopsBatch ==
    io # IoOk =>
        /\ read_lines(io, lines) = Err("IoError")
        /\ parse_price_list_path(io, lines) = Err("IoError")
        /\ pc["lib"] \in {"start", "failed"}
        /\ pc["lib"] = "failed" => err["lib"] = "IoError"
        /\ prods["lib"] = <<>>
        /\ log["lib"] = <<>>
        /\ ~cur["lib"].some
        /\ \A i \in 1..Len(store) : store[i].id = 0

\* seed_database has failed on a file whose last line cannot be read, after
\* lines that parse into records were read
C16_Witness ==
    /\ io.open = "ok"
    /\ io.bad = Len(lines)
    /\ Len(parse_price_list(SubSeq(lines, 1, io.bad - 1))) >= 1
    /\ pc["lib"] = "failed"
    /\ err["lib"] = "IoError"

(***************************************************************************)
(* C17: a price typed without `R`                                          *)
(***************************************************************************)
\* line i was read in a known section, has at least 7 tokens, dimensions
\* that parse, a last token that is an integer, and no token "R<int>"
BarePriceLine(i) ==
    /\ trace[i].before # "None"
    /\ trace[i].branch \in {"product", "rejected"}
    /\ Len(TokensOf(i)) >= 7
    /\ parse_i32(TokensOf(i)[1]).ok
    /\ parse_i32(TokensOf(i)[3]).ok
    /\ parse_i32(TokensOf(i)[5]).ok
    /\ parse_i32(TokensOf(i)[Len(TokensOf(i))]).ok
    /\ \A k \in 1..Len(TokensOf(i)) : ~IsPriceToken(TokensOf(i)[k])

\* C17 as stated: a line in a known section with valid dimensions, at least
\* 7 tokens and a final bare-integer price token (no token R<int>) is parsed
\* into a record with that price.
C17_BarePriceAccepted ==
    \A i \in 1..Len(trace) :
        BarePriceLine(i) =>
            /\ trace[i].branch = "product"
            /\ products[trace[i].emitted].price = parse_i32(TokensOf(i)[Len(TokensOf(i))]).val

\* C17 amended: the pipeline takes the price only from a token R<int>; a
\* line in a known section with valid dimensions, at least 7 tokens and a
\* final bare-integer price token (no token R<int>) is rejected: it yields
\* no record and leaves the section as it was.
C17_BarePriceRejected ==
    /\ \A i \in 1..Len(trace) :
          BarePriceLine(i) =>
            /\ trace[i].branch = "rejected"
            /\ trace[i].emitted = EmittedAfter(i - 1)
            /\ trace[i].section = trace[i].before
    /\ \A c \in BarePriceCases :
          ReadCase(c) => products = <<>> /\ trace[2].branch = "rejected"

\* a seven-token line ending in a bare 40 has been read under PALLETS
C17_Witness ==
    \E c \in BarePriceCases :
        /\ ReadCase(c)
        /\ lines[1] = H_PALLETS
        /\ BarePriceLine(2)
        /\ Len(TokensOf(2)) = 7
        /\ c.p = 40
        /\ products = <<>>

(***************************************************************************)
(* C18: the store operations of seed.rs main, record by record             *)
(***************************************************************************)
\* the store operations main has completed for record i
OpsOf(d, i) == {k \in 1..Len(log[d]) : log[d][k].rec = i}
Selects(d, i) == {k \in OpsOf(d, i) : log[d][k].op = "select"}
Inserts(d, i) == {k \in OpsOf(d, i) : log[d][k].op = "insert"}
Outcomes(d, op, outcome) ==
    {k \in 1..Len(log[d]) : log[d][k].op = op /\ log[d][k].outcome = outcome}

\* C18: for each valid record seed.rs main issues exactly one existence
\* check and then at most one INSERT, the INSERT only when that check
\* succeeded and reported the SKU absent; a record whose SKU is found is
\* counted as a success without an INSERT; the operations of a record start
\* only after those of the record before it have completed.
C18_OneCheckThenAtMostOneInsert ==
    LET d == "main1"
        done == IF pc[d] = "failed" THEN 0 ELSE idx[d] - 1
    IN  /\ \A i \in 1..done :
              /\ Cardinality(Selects(d, i)) = IF validate(prods[d][i]) = "Ok" THEN 1 ELSE 0
              /\ Cardinality(Inserts(d, i)) <= 1
              /\ (\E k \in Selects(d, i) : log[d][k].outcome = "absent")
                    <=> Inserts(d, i) # {}
        /\ \A k \in 1..Len(log[d]) :
              /\ log[d][k].rec \in 1..Len(prods[d])
              /\ log[d][k].op = "insert" =>
                    /\ k > 1
                    /\ log[d][k - 1] = [op |-> "select", rec |-> log[d][k].rec,
                                         outcome |-> "absent"]
              /\ k > 1 => log[d][k - 1].rec <= log[d][k].rec
              /\ (k > 1 /\ log[d][k - 1].rec = log[d][k].rec) =>
                    log[d][k - 1].op = "select" /\ log[d][k].op = "insert"
        /\ pc[d] = "check" => \A k \in 1..Len(log[d]) : log[d][k].rec < idx[d]
        /\ pc[d] = "insert" =>
              /\ cur[d].some
              /\ log[d][Len(log[d])] = [op |-> "select", rec |-> idx[d], outcome |-> "absent"]
              /\ Inserts(d, idx[d]) = {}
        /\ pc[d] # "insert" => ~cur[d].some
        /\ success_count[d] = Cardinality(Outcomes(d, "select", "found"))
                                + Cardinality(Outcomes(d, "insert", "ok"))

\* main has ended after finding the SKU of its first record in the table
\* and inserting its second record
C18_Witness ==
    /\ pc["main1"] = "done"
    /\ log["main1"] = <<[op |-> "select", rec |-> 1, outcome |-> "found"],
                         [op |-> "select", rec |-> 2, outcome |-> "absent"],
                         [op |-> "insert", rec |-> 2, outcome |-> "ok"]>>
    /\ success_count["main1"] = 2

(***************************************************************************)
(* C19: two records of one file with the same SKU                          *)
(***************************************************************************)
\* records i < j of the file are valid and have the same SKU, i is the first
\* with that SKU, and the table did not hold it before the run
Collide(d, i, j) ==
    /\ i < j
    /\ validate(prods[d][i]) = "Ok"
    /\ validate(prods[d][j]) = "Ok"
    /\ SkuFormat(prods[d][i]) = SkuFormat(prods[d][j])
    /\ \A h \in 1..(i - 1) :
          validate(prods[d][h]) = "Ok" => SkuFormat(prods[d][h]) # SkuFormat(prods[d][i])
    /\ \A r \in 1..Len(store) : store[r].id = 0 => store[r].sku # SkuFormat(prods[d][i])

\* the first run of main has ended and nothing else has touched the table
SingleRunDone == pc["main1"] = "done" /\ pc["main2"] = "start" /\ log["main2"] = <<>>

\* of the colliding records i < j the table holds i alone; j was found
\* present, not inserted, and counted as a success
FirstPersistedAlone(d, i, j) ==
    /\ \E r \in 1..Len(store) :
          /\ store[r].sku = SkuFormat(prods[d][i])
          /\ store[r].id # 0
          /\ store[r].name = prods[d][i].name
          /\ store[r].wood_type = prods[d][i].wood_type
          /\ store[r].finish = prods[d][i].finish
          /\ store[r].price = prods[d][i].price
          /\ store[r].description = prods[d][i].description
    /\ \E k \in Inserts(d, i) : log[d][k].outcome = "ok"
    /\ \E k \in Selects(d, j) : log[d][k].outcome = "found"
    /\ Inserts(d, j) = {}
    /\ success_count[d] = Cardinality(Outcomes(d, "select", "found"))
                            + Cardinality(Outcomes(d, "insert", "ok"))
    /\ success_count[d] + error_count[d] = Len(prods[d])

PriceTokens(i) == {k \in 1..Len(TokensOf(i)) : IsPriceToken(TokensOf(i)[k])}

\* line i was read in a known section, has at least 7 tokens and dimensions
\* that parse
DimensionedLine(i) ==
    /\ trace[i].before # "None"
    /\ trace[i].branch \in {"product", "rejected"}
    /\ Len(TokensOf(i)) >= 7
    /\ parse_i32(TokensOf(i)[1]).ok
    /\ parse_i32(TokensOf(i)[3]).ok
    /\ parse_i32(TokensOf(i)[5]).ok

\* C20: the price of a parsed record is the integer after the `R` of the
\* right-most token that begins with `R` and whose remaining characters
\* parse as an integer; tokens such as ROUGH that begin with `R` and do not
\* continue with an integer are passed over; when the last token is such a
\* token it gives the price whatever stands before it.
C20_RightmostPriceToken ==
    \A i \in 1..Len(trace) :
        DimensionedLine(i) =>
            /\ trace[i].branch = "product" => PriceTokens(i) # {}
            /\ (contains_char(lines[i], "X") \/ contains_char(lines[i], "x")) =>
                  (trace[i].branch = "product" <=> PriceTokens(i) # {})
            /\ trace[i].branch = "product" =>
                  products[trace[i].emitted].price
                      = parse_i32(Tail(TokensOf(i)[SetMax(PriceTokens(i))])).val
            /\ (trace[i].branch = "product" /\ Len(TokensOf(i)) \in PriceTokens(i)) =>
                  products[trace[i].emitted].price
                      = parse_i32(Tail(TokensOf(i)[Len(TokensOf(i))])).val

\* "38 X 114 X 3000 R50 R60 EA" has been parsed with the price 60
C20_Witness ==
    \E i \in 1..Len(trace) :
        /\ lines[i] = L_PRICE_THEN_TAGS
        /\ DimensionedLine(i)
        /\ Cardinality(PriceTokens(i)) = 2
        /\ Len(TokensOf(i)) \notin PriceTokens(i)
        /\ trace[i].branch = "product"
        /\ products[trace[i].emitted].price = 60

(***************************************************************************)
(* C21: the row main inserts                                               *)
(***************************************************************************)
\* the fields of NewWoodPlank other than sku
CopiedFields ==
    {"name", "category", "wood_type", "grade", "finish", "thickness_mm", "width_mm",
     "length_mm", "price", "stock_quantity", "unit_of_measure", "description", "image_url"}

\* row r holds candidate c: every field but sku copied, sku generated when
\* the candidate's was empty and kept otherwise
RowOf(r, c) ==
    /\ \A f \in CopiedFields : r[f] = c[f]
    /\ r.sku = IF c.sku = "" THEN SkuFormat(c) ELSE c.sku

\* C21: the row an INSERT of seed.rs main adds equals the candidate record
\* in name, category, wood_type, grade, finish, dimensions, price,
\* stock_quantity, unit_of_measure, description and image_url; its sku is the
\* generated SKU when the candidate's sku was empty and the candidate's own
\* otherwise; its id is fresh and created_at = updated_at = the time taken
\* for the INSERT. The candidate itself is never changed.
C21_InsertedRowIsCandidate ==
    /\ [][(pc["main1"] = "insert" /\ pc'["main1"] = "check" /\ store' # store) =>
            LET c == prods["main1"][idx["main1"]]
                r == store'[Len(store')]
            IN  /\ Len(store') = Len(store) + 1
                /\ SubSeq(store', 1, Len(store)) = store
                /\ RowOf(r, c)
                /\ \A i \in 1..Len(store) : store[i].id # r.id
                /\ r.created_at = cur["main1"].now
                /\ r.updated_at = r.created_at
                /\ r.created_at \in 1..clock
                /\ DOMAIN r = CopiedFields \cup {"sku", "id", "created_at", "updated_at"}]_vars
    /\ [][pc["main1"] # "start" => prods'["main1"] = prods["main1"]]_vars
    /\ [](\A d \in Drivers : cur[d].some =>
            /\ RowOf(cur[d].val, prods[d][idx[d]])
            /\ DOMAIN cur[d].val = CopiedFields \cup {"sku"})
    /\ [](\A p \in Parsed :
            /\ generate_sku([p EXCEPT !.sku = "OWN-SKU-1"]) = "OWN-SKU-1"
            /\ generate_sku(p) = SkuFormat(p))

\* main has inserted the Pine line "  23 x 100 x 2500 PINE PAR R45" and the
\* row carries its description, the SKU LT-A-23x100x2500 and one timestamp
C21_Witness ==
    /\ \E k \in 1..Len(log["main1"]) :
          log["main1"][k] = [op |-> "insert", rec |-> 1, outcome |-> "ok"]
    /\ Len(prods["main1"]) >= 1
    /\ prods["main1"][1].wood_type = "Pine"
    /\ \E i \in 1..Len(store) :
          /\ store[i].id # 0
          /\ RowOf(store[i], prods["main1"][1])
          /\ store[i].sku = "LT-A-23x100x2500"
          /\ store[i].description = Some(trim(L_PINE_PAR))
          /\ store[i].created_at = store[i].updated_at
          /\ store[i].created_at >= 1

(***************************************************************************)
(* C22: the two counters of seed.rs main                                   *)
(***************************************************************************)
\* the number of records main has finished with
Processed(d) == idx[d] - 1

\* the outcome main logged in this step, "none" when it issued no store call
Logged_outcome(d) ==
    IF Len(log'[d]) = Len(log[d]) THEN "none" ELSE log'[d][Len(log'[d])].outcome

\* C22: in seed.rs main, after the first k records success_count +
\* error_count = k; each record adds one to exactly one of the two counters,
\* once: a validation failure, a failed existence check and a failed INSERT
\* add to error_count, an SKU found present and a successful INSERT add to
\* success_count; at the summary the sum is the number of parsed records.
C22_CountersConserved ==
    /\ [](success_count["main1"] + error_count["main1"] = Processed("main1"))
    /\ [](pc["main1"] = "done" =>
            success_count["main1"] + error_count["main1"] = Len(prods["main1"]))
    /\ [][/\ idx'["main1"] \in {idx["main1"], idx["main1"] + 1}
          /\ idx'["main1"] = idx["main1"] =>
                /\ success_count'["main1"] = success_count["main1"]
                /\ error_count'["main1"] = error_count["main1"]
          /\ idx'["main1"] = idx["main1"] + 1 =>
                /\ Logged_outcome("main1") = "none" =>
                      validate(prods["main1"][idx["main1"]]) # "Ok"
                /\ IF Logged_outcome("main1") \in {"found", "ok"}
                   THEN /\ success_count'["main1"] = success_count["main1"] + 1
                        /\ error_count'["main1"] = error_count["main1"]
                   ELSE /\ Logged_outcome("main1") \in {"none", "error", "rejected"}
                        /\ error_count'["main1"] = error_count["main1"] + 1
                        /\ success_count'["main1"] = success_count["main1"]]_vars

\* main has ended after one record that fails validation and one INSERT
\* that succeeded
C22_Witness ==
    /\ pc["main1"] = "done"
    /\ Len(prods["main1"]) = 2
    /\ \E i \in 1..2 : validate(prods["main1"][i]) # "Ok"
    /\ \E k \in 1..Len(log["main1"]) : log["main1"][k].outcome = "ok"
    /\ success_count["main1"] = 1
    /\ error_count["main1"] = 1

(***************************************************************************)
(* C23: dimensions and prices that are not positive                        *)
(***************************************************************************)
\* the numbers typed on each line of NonPositiveLines: three dimensions and
\* the price
TypedNumbers(l) ==
    CASE l = L_ZERO_LEN -> <<23, 100, 0, 40>>
      [] l = L_ZERO_PRICE -> <<38, 114, 3000, 0>>
      [] l = L_NEG -> <<0 - 5, 100, 2500, 0 - 40>>
      [] l = L_NEG_DIM -> <<0 - 5, 100, 2500, 40>>
      [] l = L_NEG_PRICE -> <<23, 100, 2500, 0 - 40>>

\* line i of the file, read under its header, carries a dimension or a price
\* that is zero or negative
NonPositiveLine(i) == i > 1 /\ lines[1] \in CanonicalHeaders /\ lines[i] \in NonPositiveLines

\* the records of driver d that came from line i
RecordsOf(d, i) == {k \in 1..Len(prods[d]) : prods[d][k].description = Some(lines[i])}

\* C23: in a known section a line whose dimension token is `0` or a signed
\* integer such as `-5`, or whose price token is `R0` or `R-40`, is emitted
\* by parse_price_list as a candidate with those numbers; in seed.rs main
\* validate() stops it: it is counted as a failure, no store call is issued
\* for it and no row of it is inserted.
C23_NonPositiveStoppedByValidate ==
    LET d == "main1"
    IN  pc[d] \in {"check", "insert", "done"} =>
          /\ \A i \in 1..Len(lines) :
                NonPositiveLine(i) =>
                  /\ RecordsOf(d, i) # {}
                  /\ \A k \in RecordsOf(d, i) :
                        /\ <<prods[d][k].thickness_mm, prods[d][k].width_mm,
                              prods[d][k].length_mm, prods[d][k].price>>
                              = TypedNumbers(lines[i])
                        /\ ~WellFormed(prods[d][k])
                        /\ OpsOf(d, k) = {}
                        /\ pc[d] = "insert" => idx[d] # k
                        /\ \A r \in 1..Len(store) :
                              store[r].description # prods[d][k].description
          /\ error_count[d] >= Cardinality({k \in 1..Processed(d) : ~WellFormed(prods[d][k])})

\* main has ended on a file whose first record has the thickness -5: it
\* counted one failure and inserted the record after it
C23_Witness ==
    /\ pc["main1"] = "done"
    /\ lines = <<H_PALLETS, L_NEG_DIM, L_OTHER>>
    /\ NonPositiveLine(2)
    /\ Len(prods["main1"]) = 2
    /\ prods["main1"][1].thickness_mm = 0 - 5
    /\ error_count["main1"] = 1
    /\ success_count["main1"] = 1
    /\ \E r \in 1..Len(store) : store[r].description = Some(L_OTHER)

\* the values of a row apart from id, created_at and updated_at
FieldValues(r) == [f \in CopiedFields \cup {"sku"} |-> r[f]]

\* the rows of table st after its first n
RowsAfter(st, n) == {st[i] : i \in n + 1..Len(st)}
SkusOf(st) == {st[i].sku : i \in 1..Len(st)}

\* both drivers have run to their end on the same file and the same initial
\* table, and no store call of either failed
BothRanClean ==
    /\ pc["main1"] = "done"
    /\ pc["lib"] = "done"
    /\ saved.main.some
    /\ NoStoreError("main1")
    /\ NoStoreError("lib")

\* C24: run on the same parsed records and the same initial table, with no
\* store call failing, seed.rs main (validate, existence check, insert) and
\* seed_database (existence check, validate, insert) keep the initial rows,
\* insert rows with the same SKUs and the same field values, as many of
\* them, and leave the same set of persisted SKUs.
C24_DriversEquivalent ==
    BothRanClean =>
      LET n == Len(saved.initial)
          m == saved.main.val
      IN  /\ prods["main1"] = prods["lib"]
          /\ Len(m) >= n /\ SubSeq(m, 1, n) = saved.initial
          /\ Len(store) >= n /\ SubSeq(store, 1, n) = saved.initial
          /\ {FieldValues(r) : r \in RowsAfter(m, n)}
                = {FieldValues(r) : r \in RowsAfter(store, n)}
          /\ Len(m) = Len(store)
          /\ SkusOf(m) = SkusOf(store)

\* both drivers ran on a zero-price line whose SKU is already in the table,
\* followed by a new valid line: main rejected the first record in validate()
\* without a SELECT, seed_database skipped it as found, and both inserted
\* the second
C24_Witness ==
    /\ BothRanClean
    /\ lines = <<H_A_GRADE_LONG_TIMBERS, L_ZERO_PRICE, L_BALTIC>>
    /\ Len(saved.initial) = 1
    /\ OpsOf("main1", 1) = {}
    /\ error_count["main1"] = 1
    /\ \E k \in OpsOf("lib", 1) : log["lib"][k].outcome = "found"
    /\ Len(store) = 2
    /\ Len(saved.main.val) = 2
    /\ store[2].description = Some(L_BALTIC)

====
